---- MODULE Spec2Model ----
(***************************************************************************)
(* Model of src/radicals.py: the decomposition graph built by              *)
(* load_from_json, its cache (load), the similarity search                 *)
(* characters_within and the enumeration enumerate_sorted; and of the      *)
(* Database of src/database.py with add_text and generate.                 *)
(*                                                                         *)
(* Characters are the integers 1..MaxChar.  Python's None is Null.         *)
(* Distances are counted in hundredths, so that the four cost weights      *)
(* (1, 0.5, 0.25, 0.01) are the integers 100, 50, 25 and 1.                *)
(***************************************************************************)
EXTENDS Integers, Sequences, FiniteSets, TLC

VARIABLES
    rawFile,     \* contents of rads.json on disk: char -> list of fields
    rads_json,   \* load_from_json: the parsed table (json.load's result)
    radicals,    \* the radicals dict: char -> node
    dictKeys,    \* the keys of the radicals dict in the order of their insertion
    pending,     \* load_from_json: keys the for loop has not reached yet
    loadState,   \* "loading" | "loaded" (returned) | "failed" (raised)
    pickleFile,  \* contents of radicals.pickle on disk
    loader,      \* the calls of load: the running one and the finished ones
    order,       \* iteration order of Python sets in this process (a ranking)
    callerSet,   \* per search: the set object the caller passed as exclusions
    gens,        \* per search: the generator object of characters_within
    enum,        \* the generator object of enumerate_sorted
    db,          \* the Database object
    io           \* the last call on the Database and what it returned

vars == <<rawFile, rads_json, radicals, dictKeys, pending, loadState, pickleFile,
          loader, order, callerSet, gens, enum, db, io>>

---------------------------------------------------------------------------
(* Bounds of the model. *)

\* characters are 1..MaxChar
MaxChar == 7
\* SpecBuild: stroke counts of raw entries are 1..MaxStrokes
MaxStrokes == 2
\* Spec: max_distance ranges over the multiples of COST_DIFFERENT_SIDE up to
\* MaxHalves of them
MaxHalves == 7
\* SpecDb: at most MaxAdds calls of add_text
MaxAdds == 3
\* SpecDb: generate is called while cycle is below MaxCycle
MaxCycle == 2
\* SpecDb: n_chars of generate is 1..MaxSelect
MaxSelect == 2
\* Spec: a caller-supplied exclusions set holds at most MaxExcl characters
MaxExcl == 1
\* SpecLoad: load is called at most MaxLoads times
MaxLoads == 3

Chars == 1..MaxChar

---------------------------------------------------------------------------
(* Program constants, src/radicals.py:38-41, in hundredths. *)

COST_DIFFERENT_RADICAL == 100
COST_DIFFERENT_SIDE == 50
COST_DIFFERENT_COMPOSITION == 25
COST_DIFFERENT_STROKES == 1

\* Python's None (a missing component, a missing composition type)
Null == 0

\* radicals[char][PARENT_INDEX] of a character without parents
NoParent == <<>>

---------------------------------------------------------------------------
(* load_from_json *)

\* a node [parent, descendants_left, descendants_right, num_strokes]
DummyNode ==
    [parent |-> NoParent, descendants_left |-> {}, descendants_right |-> {},
     num_strokes |-> 0]

\* a placeholder that starts with one stroke
make_dummy_one_stroke(rad, char) ==
    [c \in (DOMAIN rad) \cup {char} |->
        IF c = char THEN [DummyNode EXCEPT !.num_strokes = 1] ELSE rad[c]]

\* make_dummy(char): radicals[char] = [None, set(), set(), 0]
make_dummy(rad, char) ==
    [c \in (DOMAIN rad) \cup {char} |-> IF c = char THEN DummyNode ELSE rad[c]]

\* the key a first assignment radicals[char] = ... appends to the dict's keys
Inserted(keys, char) ==
    IF \E k \in 1..Len(keys) : keys[k] = char THEN keys ELSE Append(keys, char)

\* an entry of two fields padded like one of three
PadEntryLenient(data) ==
    IF Len(data) < 4
    THEN IF Len(data) < 3 THEN <<data[1], data[2], Null, Null>> ELSE Append(data, Null)
    ELSE data

\* the padding overwrites the left component
PadEntryLeftLost(data) ==
    IF Len(data) < 4
    THEN IF Len(data) < 3 THEN <<>> ELSE <<data[1], data[2], Null, Null>>
    ELSE data

\* lines 62-67: the entry as destructured, after the append of None;
\* <<>> when the entry has fewer than three fields (the raise)
PadEntry(data) ==
    IF Len(data) < 4
    THEN IF Len(data) < 3 THEN <<>> ELSE Append(data, Null)
    ELSE data

\* a left component that is kept although it is the character itself
LeftKept(char, left) == left

\* lines 73-74: if left == char: left = None
DropSelf(char, left) == IF left = char THEN Null ELSE left

\* the descendant set assigned instead of added to
AddDescendantAssigned(descendants, char) == {char}

\* lines 97-98: radicals[...][DESCENDANT_..._INDEX].add(char)
AddDescendant(descendants, char) == descendants \cup {char}

\* a node is made anew whether the dict holds one or not
EnsureNodeAnew(rad, char) == make_dummy(rad, char)

\* lines 80-81, 90-93: if char not in radicals: make_dummy(char)
EnsureNode(rad, char) == IF char \notin DOMAIN rad THEN make_dummy(rad, char) ELSE rad

\* lines 70-98: one iteration of the for loop on a four-field entry
LoadEntryBody(rad, char, data) ==
    LET num_strokes      == data[1]
        composition_type == data[2]
        left  == DropSelf(char, data[3])
        right == data[4]
        r1 == EnsureNode(rad, char)
        r2 == [r1 EXCEPT ![char].num_strokes = num_strokes]
    IN  IF left = Null \/ right = Null
        THEN r2
        ELSE LET r3 == EnsureNode(r2, left)
                 r4 == EnsureNode(r3, right)
                 r5 == [r4 EXCEPT ![char].parent = <<composition_type, left, right>>]
                 r6 == [r5 EXCEPT ![left].descendants_left = AddDescendant(@, char)]
             IN  [r6 EXCEPT ![right].descendants_right = AddDescendant(@, char)]

\* lines 80-93: the keys of the dict after that iteration
LoadEntryKeys(keys, char, data) ==
    LET left  == DropSelf(char, data[3])
        right == data[4]
        k1 == Inserted(keys, char)
    IN  IF left = Null \/ right = Null
        THEN k1
        ELSE Inserted(Inserted(k1, left), right)

EmptyDict == [c \in {} |-> DummyNode]

\* no table parsed yet
NoTable == [c \in {} |-> <<>>]

\* the call of load that is running raises
LoadRaised(l) ==
    [l EXCEPT !.pc = "error", !.log[Len(l.log)].outcome = "raised"]

\* the for loop of load_from_json, one entry per step, in the order of the
\* file; the exception of line 66 leaves load_from_json and, when load called
\* it (line 107), load
LoadEntry(char) ==
    /\ loadState = "loading"
    /\ char \in pending
    /\ LET data == PadEntry(rads_json[char])
       IN  IF Len(data) # 4
           THEN /\ loadState' = "failed"
                /\ loader' = IF loader.pc = "build" THEN LoadRaised(loader) ELSE loader
                /\ UNCHANGED <<rads_json, radicals, dictKeys, pending>>
           ELSE /\ rads_json' = [rads_json EXCEPT ![char] = data]
                /\ radicals' = LoadEntryBody(radicals, char, data)
                /\ dictKeys' = LoadEntryKeys(dictKeys, char, data)
                /\ pending' = pending \ {char}
                /\ UNCHANGED <<loadState, loader>>
    /\ UNCHANGED <<rawFile, pickleFile, order, callerSet, gens, enum, db, io>>

\* line 100: return radicals
LoadReturn ==
    /\ loadState = "loading"
    /\ pending = {}
    /\ loadState' = "loaded"
    /\ UNCHANGED <<rawFile, rads_json, radicals, dictKeys, pending, pickleFile,
                   loader, order, callerSet, gens, enum, db, io>>

\* load_from_json run to its end on a table without short entries
RECURSIVE LoadAll(_, _, _)
LoadAll(rad, json, keys) ==
    IF keys = {} THEN rad
    ELSE LET char == CHOOSE c \in keys : \A d \in keys : c <= d
         IN  LoadAll(LoadEntryBody(rad, char, PadEntry(json[char])), json, keys \ {char})

load_from_json(json) == LoadAll(EmptyDict, json, DOMAIN json)

\* the keys of the dict load_from_json returns for a table without short
\* entries whose file lists the characters in the order of the sequence todo
RECURSIVE LoadKeys(_, _, _)
LoadKeys(keys, json, todo) ==
    IF todo = <<>> THEN keys
    ELSE LoadKeys(LoadEntryKeys(keys, Head(todo), PadEntry(json[Head(todo)])),
                  json, Tail(todo))

---------------------------------------------------------------------------
(* load: the pickle file that caches the dict *)

\* the elements of a Python set in the order this process iterates them
RECURSIVE SetToSeq(_, _)
SetToSeq(S, ord) ==
    IF S = {} THEN <<>>
    ELSE LET x == CHOOSE c \in S : \A d \in S : ord[c] <= ord[d]
         IN  <<x>> \o SetToSeq(S \ {x}, ord)

Range(seq) == {seq[k] : k \in 1..Len(seq)}

\* os.path.isfile(path) is false
NoFile == [exists |-> FALSE, valid |-> FALSE, bytes |-> <<>>]

\* a file that pickle.load cannot read
CorruptFile == [exists |-> TRUE, valid |-> FALSE, bytes |-> <<>>]

\* the descendant sets are dumped empty
pickle_dump_no_descendants(rad, keys, ord) ==
    [exists |-> TRUE, valid |-> TRUE,
     bytes |-> [k \in 1..Len(keys) |->
                  <<keys[k], rad[keys[k]].parent, <<>>, <<>>, rad[keys[k]].num_strokes>>]]

\* line 111, pickle.dump(radicals, f): the items of the dict in the order of
\* their insertion, every node as the list of its parent, the elements of
\* its two sets in the order of their iteration, and its number of strokes
pickle_dump(rad, keys, ord) ==
    [exists |-> TRUE, valid |-> TRUE,
     bytes |-> [k \in 1..Len(keys) |->
                  <<keys[k], rad[keys[k]].parent,
                    SetToSeq(rad[keys[k]].descendants_left, ord),
                    SetToSeq(rad[keys[k]].descendants_right, ord),
                    rad[keys[k]].num_strokes>>]]

\* line 116, pickle.load(f): the dict rebuilt item by item, the sets from
\* their dumped elements
pickle_load(bytes) ==
    [c \in {bytes[k][1] : k \in 1..Len(bytes)} |->
        LET e == bytes[CHOOSE k \in 1..Len(bytes) : bytes[k][1] = c]
        IN  [parent |-> e[2], descendants_left |-> Range(e[3]),
             descendants_right |-> Range(e[4]), num_strokes |-> e[5]]]

\* the keys of the rebuilt dict, in the order of the dumped items
pickle_keys(bytes) == [k \in 1..Len(bytes) |-> bytes[k][1]]

\* no call of load yet
IdleLoader == [pc |-> "idle", log |-> <<>>]

\* a call of load that has just tested os.path.isfile(path); built says that
\* it calls load_from_json, which opens and parses rads.json
NewLoad(file) ==
    [cached |-> file.exists, corrupt |-> file.exists /\ ~file.valid,
     built |-> ~file.exists, outcome |-> "running", store |-> EmptyDict]

\* the running call of load returns the store
LoadReturned(l, store) ==
    [l EXCEPT !.pc = "done", !.log[Len(l.log)].outcome = "returned",
              !.log[Len(l.log)].store = store]

\* lines 105-107 and 114-116: load is called.  Without pickle file it calls
\* load_from_json (lines 49-52: the dict is empty, the table parsed); with
\* one it returns what pickle.load makes of it, or pickle.load raises
Load ==
    /\ loader.pc # "build"
    /\ Len(loader.log) < MaxLoads
    /\ LET l == [loader EXCEPT !.log = Append(@, NewLoad(pickleFile))]
       IN  IF ~pickleFile.exists
           THEN /\ loader' = [l EXCEPT !.pc = "build"]
                /\ rads_json' = rawFile
                /\ radicals' = EmptyDict
                /\ dictKeys' = <<>>
                /\ pending' = DOMAIN rawFile
                /\ loadState' = "loading"
           ELSE IF pickleFile.valid
           THEN /\ loader' = LoadReturned(l, pickle_load(pickleFile.bytes))
                /\ radicals' = pickle_load(pickleFile.bytes)
                /\ dictKeys' = pickle_keys(pickleFile.bytes)
                /\ loadState' = "loaded"
                /\ UNCHANGED <<rads_json, pending>>
           ELSE /\ loader' = LoadRaised(l)
                /\ UNCHANGED <<rads_json, radicals, dictKeys, pending, loadState>>
    /\ UNCHANGED <<rawFile, pickleFile, order, callerSet, gens, enum, db, io>>

\* lines 109-113: load_from_json has returned; the dict is dumped to the
\* pickle file, created by open(path, 'xb'), and returned
LoadDump ==
    /\ loader.pc = "build"
    /\ loadState = "loaded"
    /\ pickleFile' = pickle_dump(radicals, dictKeys, order)
    /\ loader' = LoadReturned(loader, radicals)
    /\ UNCHANGED <<rawFile, rads_json, radicals, dictKeys, pending, loadState,
                   order, callerSet, gens, enum, db, io>>

---------------------------------------------------------------------------
(* characters_within: a generator.  Its state is the stack of the nested    *)
(* invocations (yield from), each a frame with its program counter.        *)

Abs(n) == IF n < 0 THEN -n ELSE n

\* the contents of the set object the name `exclusions` is bound to
Excl(g) == IF g.ref = "caller" THEN g.callerv ELSE g.freshv

\* line 143: not exclusions (None, or a set without elements)
NotExclusions(g) == g.ref = "none" \/ Excl(g) = {}

\* only the character searched from is skipped
ExcludedOnlyCentre(g, descendant) == descendant = g.stack[Len(g.stack)].char

\* line 166: descendant in exclusions
Excluded(g, descendant) == descendant \in Excl(g)

\* the rest of the loop is marked along with c
ExclAddAhead(g, c) ==
    LET ahead == {c} \cup Range(g.stack[Len(g.stack)].todo)
    IN  IF g.ref = "caller"
        THEN [g EXCEPT !.callerv = @ \cup ahead]
        ELSE [g EXCEPT !.freshv = @ \cup ahead]

\* exclusions.add(c)
ExclAdd(g, c) ==
    IF g.ref = "caller"
    THEN [g EXCEPT !.callerv = @ \cup {c}]
    ELSE [g EXCEPT !.freshv = @ \cup {c}]

\* radicals[char] raises KeyError
KeyError(rad, char) == char \notin DOMAIN rad

\* the test for a character without parents left out
NoParentsOmitted(rad, char) == FALSE

\* line 148: not radicals[char][PARENT_INDEX]
NoParents(rad, char) == rad[char].parent = NoParent

\* a frame of characters_within(radicals, char, max_distance, exclusions,
\* distance, ..., do_parents, go_deeper) that has not run yet; id numbers the
\* invocations of a search, base keeps the distance argument
NewFrame(id, char, distance, do_parents, go_deeper, kind) ==
    [id |-> id, char |-> char, distance |-> distance, base |-> distance,
     do_parents |-> do_parents, go_deeper |-> go_deeper, kind |-> kind,
     pc |-> "enter", todo |-> <<>>, next_queue |-> <<>>, queue_todo |-> <<>>,
     num_strokes |-> 0, composition_type |-> "null",
     left_parent_char |-> Null, right_parent_char |-> Null]

Top(g) == g.stack[Len(g.stack)]

SetTop(g, f) == [g EXCEPT !.stack[Len(g.stack)] = f]

\* where a frame suspended in a yield from goes on when the callee returns
AfterYieldFrom(pc) ==
    CASE pc = "parent_left"  -> "parent_right"
      [] pc = "parent_right" -> "queued"
      [] pc = "queued"       -> "queued"

\* the invocation on top of the stack returns: its caller goes on, or the
\* generator is exhausted when it was the outermost one
Return(g) ==
    LET s == SubSeq(g.stack, 1, Len(g.stack) - 1)
    IN  IF s = <<>>
        THEN [g EXCEPT !.stack = s, !.status = "done"]
        ELSE [g EXCEPT !.stack = [s EXCEPT ![Len(s)].pc = AfterYieldFrom(@)]]

\* an exception that is swallowed: the invocation returns
RaiseSwallowed(g) == Return(g)

\* an exception leaves the generator: KeyError at line 148, 201 or 202,
\* TypeError at line 177 or 198
Raise(g) == [g EXCEPT !.status = "error"]

\* yield from characters_within(radicals, char, max_distance, exclusions,
\* distance, do_stroke_difference, do_parent_alternates, do_parents=False,
\* go_deeper=...): the caller's frame f stays suspended, a new frame is entered
Recurse(g, f, char, distance, go_deeper, kind) ==
    LET id == Len(g.calls) + 1
        g1 == SetTop(g, f)
    IN  [g1 EXCEPT
           !.stack = Append(@, NewFrame(id, char, distance, FALSE, go_deeper, kind)),
           !.calls = Append(@, [id |-> id, char |-> char, distance |-> distance,
                                kind |-> kind, go_deeper |-> go_deeper,
                                caller |-> f.char, caller_id |-> f.id,
                                caller_base |-> f.base])]

\* lines 143-157 and 197-202: entering an invocation
Enter(g, rad, ord) ==
    LET f  == Top(g)
        \* if not exclusions: exclusions = set()
        g1 == IF NotExclusions(g)
              THEN [g EXCEPT !.ref = "fresh", !.freshv = {}]
              ELSE g
    IN  IF KeyError(rad, f.char)
        THEN Raise(g1)
        ELSE IF NoParents(rad, f.char)
        THEN Return(g1)
        ELSE LET parent == rad[f.char].parent
                 g2 == ExclAdd(g1, f.char)
             IN  IF Len(parent) # 3
                 THEN Raise(g2)
                 ELSE IF KeyError(rad, parent[2]) \/ KeyError(rad, parent[3])
                 THEN Raise(g2)
                 ELSE SetTop(g2,
                        [f EXCEPT !.num_strokes = rad[f.char].num_strokes,
                                  !.composition_type = parent[1],
                                  !.left_parent_char = parent[2],
                                  !.right_parent_char = parent[3],
                                  !.pc = "left_siblings",
                                  !.todo = SetToSeq(rad[parent[2]].descendants_left, ord)])

\* the cost of a different composition type left out
DescendantDistanceSameType(f, descendant, distance, rad, do_stroke_difference) ==
    LET stroke_difference == Abs(f.num_strokes - rad[descendant].num_strokes)
    IN  IF do_stroke_difference /\ stroke_difference > 0
        THEN distance + COST_DIFFERENT_STROKES * stroke_difference
        ELSE distance

\* lines 169-178: the distance process_descendant computes for a descendant
\* that is not excluded
DescendantDistance(f, descendant, distance, rad, do_stroke_difference) ==
    LET stroke_difference == Abs(f.num_strokes - rad[descendant].num_strokes)
        d1 == IF do_stroke_difference /\ stroke_difference > 0
              THEN distance + COST_DIFFERENT_STROKES * stroke_difference
              ELSE distance
    IN  IF rad[descendant].parent[1] # f.composition_type
        THEN d1 + COST_DIFFERENT_COMPOSITION
        ELSE d1

\* the limit compared with the distance before the composition cost
TooFarLate(distance, max_distance) == distance - COST_DIFFERENT_COMPOSITION > max_distance

\* lines 180, 235, 255: distance > max_distance
TooFar(distance, max_distance) == distance > max_distance

\* the alternates of the left parent before the siblings on the right
NextLoopLeftFirst(f, rad, ord, do_parent_alternates) ==
    LET left_parent  == rad[f.left_parent_char]
        right_parent == rad[f.right_parent_char]
    IN  CASE f.pc = "left_siblings" /\ do_parent_alternates ->
               [f EXCEPT !.pc = "left_alternates",
                         !.todo = SetToSeq(left_parent.descendants_right, ord)]
          [] f.pc \in {"left_siblings", "left_alternates"} ->
               [f EXCEPT !.pc = "right_siblings",
                         !.todo = SetToSeq(right_parent.descendants_right, ord)]
          [] f.pc = "right_siblings" /\ do_parent_alternates ->
               [f EXCEPT !.pc = "right_alternates",
                         !.todo = SetToSeq(right_parent.descendants_left, ord)]
          [] OTHER -> [f EXCEPT !.pc = "beyond"]

\* lines 204-230: the for loop that follows the one at pc, and the set it
\* iterates
NextLoop(f, rad, ord, do_parent_alternates) ==
    LET left_parent  == rad[f.left_parent_char]
        right_parent == rad[f.right_parent_char]
    IN  CASE f.pc = "left_siblings" ->
               [f EXCEPT !.pc = "right_siblings",
                         !.todo = SetToSeq(right_parent.descendants_right, ord)]
          [] f.pc = "right_siblings" /\ do_parent_alternates ->
               [f EXCEPT !.pc = "left_alternates",
                         !.todo = SetToSeq(left_parent.descendants_right, ord)]
          [] f.pc = "right_siblings" /\ ~do_parent_alternates ->
               [f EXCEPT !.pc = "beyond"]
          [] f.pc = "left_alternates" ->
               [f EXCEPT !.pc = "right_alternates",
                         !.todo = SetToSeq(right_parent.descendants_left, ord)]
          [] f.pc = "right_alternates" ->
               [f EXCEPT !.pc = "beyond"]

\* the cost of the other side left out
LoopDistanceSameSide(f) == f.distance

\* lines 206, 215, 222, 228: the distance the loop at pc passes to
\* process_descendant
LoopDistance(f) ==
    IF f.pc \in {"left_alternates", "right_alternates"}
    THEN f.distance + COST_DIFFERENT_SIDE
    ELSE f.distance

\* the frames of the suspended invocations and the running one, outermost first
Path(g) == [k \in 1..Len(g.stack) |-> [id |-> g.stack[k].id, pc |-> g.stack[k].pc]]

\* lines 204-230 with process_descendant (163-195): one iteration of a loop
\* over the descendants of a parent
LoopStep(g, rad, ord) ==
    LET f == Top(g)
    IN  IF f.todo = <<>>
        THEN SetTop(g, NextLoop(f, rad, ord, g.args.do_parent_alternates))
        ELSE LET descendant == Head(f.todo)
                 f1 == [f EXCEPT !.todo = Tail(@)]
             IN  IF Excluded(g, descendant)
                 THEN SetTop(g, f1)
                 ELSE IF NoParents(rad, descendant)
                 THEN Raise(g)
                 ELSE LET distance == DescendantDistance(f, descendant, LoopDistance(f),
                                          rad, g.args.do_stroke_difference)
                      IN  IF TooFar(distance, g.args.max_distance)
                          THEN SetTop(g, f1)
                          ELSE LET g1 == ExclAdd(g, descendant)
                                   f2 == IF f.go_deeper
                                         THEN [f1 EXCEPT !.next_queue =
                                                 Append(@, <<descendant, distance>>)]
                                         ELSE f1
                               IN  [SetTop(g1, f2) EXCEPT
                                      !.status = "yield",
                                      !.out = Append(@,
                                         [char |-> descendant, distance |-> distance,
                                          phase |-> f.pc, centre |-> f.char,
                                          kind |-> f.kind, path |-> Path(g)])]

\* the cost of one more radical left out
OneMoreRadicalFree(distance) == distance

\* lines 233 and 254: distance += COST_DIFFERENT_RADICAL
OneMoreRadical(distance) == distance + COST_DIFFERENT_RADICAL

\* lines 232-236: characters beyond this point have one more radical different
Beyond(g) ==
    LET f == Top(g)
        distance == OneMoreRadical(f.distance)
    IN  IF TooFar(distance, g.args.max_distance)
        THEN Return(g)
        ELSE SetTop(g, [f EXCEPT !.distance = distance,
                                 !.pc = IF f.do_parents THEN "parent_left" ELSE "queued",
                                 !.queue_todo = f.next_queue])

\* the invocations on the parents expand their results in turn
ParentStepDeeper(g) ==
    LET f == Top(g)
    IN  Recurse(g, f,
                IF f.pc = "parent_left" THEN f.left_parent_char ELSE f.right_parent_char,
                f.distance, TRUE, "parent")

\* lines 238-248: the siblings of the two parents
ParentStep(g) ==
    LET f == Top(g)
    IN  Recurse(g, f,
                IF f.pc = "parent_left" THEN f.left_parent_char ELSE f.right_parent_char,
                f.distance, FALSE, "parent")

\* the distance stored with a queued result is ignored: every expansion
\* starts from the distance of the expanding invocation
QueuedStepFromBase(g) ==
    LET f == Top(g)
    IN  IF f.queue_todo = <<>>
        THEN Return(g)
        ELSE LET queued   == Head(f.queue_todo)[1]
                 distance == OneMoreRadical(f.base)
                 f1 == [f EXCEPT !.queue_todo = Tail(@), !.distance = distance]
             IN  IF TooFar(distance, g.args.max_distance)
                 THEN SetTop(g, f1)
                 ELSE Recurse(g, f1, queued, distance, f.go_deeper, "queued")

\* lines 251-261: one iteration of the loop over next_queue
QueuedStep(g) ==
    LET f == Top(g)
    IN  IF f.queue_todo = <<>>
        THEN Return(g)
        ELSE LET queued   == Head(f.queue_todo)[1]
                 distance == OneMoreRadical(Head(f.queue_todo)[2])
                 f1 == [f EXCEPT !.queue_todo = Tail(@), !.distance = distance]
             IN  IF TooFar(distance, g.args.max_distance)
                 THEN SetTop(g, f1)
                 ELSE Recurse(g, f1, queued, distance, f.go_deeper, "queued")

\* one step of the generator's code
Step(g, rad, ord) ==
    LET pc == Top(g).pc
    IN  CASE pc = "enter" -> Enter(g, rad, ord)
          [] pc \in {"left_siblings", "right_siblings",
                     "left_alternates", "right_alternates"} -> LoopStep(g, rad, ord)
          [] pc = "beyond" -> Beyond(g)
          [] pc \in {"parent_left", "parent_right"} -> ParentStep(g)
          [] pc = "queued" -> QueuedStep(g)

\* next(generator): the code runs to its next yield, to its end or to an error
RECURSIVE RunToYield(_, _, _)
RunToYield(g, rad, ord) ==
    IF g.status # "run" THEN g ELSE RunToYield(Step(g, rad, ord), rad, ord)

---------------------------------------------------------------------------
(* The callers of characters_within: a search is called once and consumed  *)
(* with next(); a consumer that stops early takes no further step.         *)

Searches == {1}

\* max_distance of a call
MaxDistances == {COST_DIFFERENT_SIDE * k : k \in 1..MaxHalves}

\* the characters a caller puts in an exclusions set: the composed ones
ExclChars == {4, 5, 6}

\* the exclusions argument of a call: None, or a set of at most MaxExcl characters
ExclArgs ==
    {[given |-> FALSE, set |-> {}]}
    \cup {[given |-> TRUE, set |-> s] :
             s \in {t \in SUBSET ExclChars : Cardinality(t) <= MaxExcl}}

\* no call yet
IdleGen ==
    [status |-> "none",
     args |-> [char |-> Null, max_distance |-> 0, exclusions |-> Null, before |-> {},
               do_stroke_difference |-> FALSE, do_parent_alternates |-> FALSE,
               do_parents |-> FALSE],
     stack |-> <<>>, ref |-> "none", callerv |-> {}, freshv |-> {},
     out |-> <<>>, calls |-> <<>>]

\* characters_within(radicals, char, max_distance, exclusions,
\* do_stroke_difference=..., do_parent_alternates=..., do_parents=...): the
\* generator object; none of its code has run.  args.exclusions is Null or the
\* id of the caller's set, args.before the contents of that set at the call
NewGen(id, char, max_distance, excl, do_stroke_difference, do_parent_alternates, do_parents) ==
    [status |-> "created",
     args |-> [char |-> char, max_distance |-> max_distance,
               exclusions |-> IF excl.given THEN id ELSE Null, before |-> excl.set,
               do_stroke_difference |-> do_stroke_difference,
               do_parent_alternates |-> do_parent_alternates,
               do_parents |-> do_parents],
     stack |-> <<NewFrame(0, char, COST_DIFFERENT_RADICAL, do_parents, TRUE, "top")>>,
     ref |-> IF excl.given THEN "caller" ELSE "none",
     callerv |-> {}, freshv |-> {}, out |-> <<>>, calls |-> <<>>]

\* next(generator) on the current contents of the caller's set
Resumed(g, set, rad, ord) ==
    RunToYield([g EXCEPT !.status = "run", !.callerv = set], rad, ord)

\* the generator run to its end: list(generator)
RECURSIVE Consumed(_, _, _)
Consumed(g, rad, ord) ==
    IF g.status \in {"done", "error"} THEN g
    ELSE Consumed(Resumed(g, g.callerv, rad, ord), rad, ord)

Call(i) ==
    /\ loadState = "loaded"
    /\ gens[i].status = "none"
    /\ \E char \in Chars, max_distance \in MaxDistances, excl \in ExclArgs,
          do_stroke_difference \in BOOLEAN, do_parent_alternates \in BOOLEAN,
          do_parents \in BOOLEAN :
          /\ gens' = [gens EXCEPT ![i] =
                        NewGen(i, char, max_distance, excl, do_stroke_difference,
                               do_parent_alternates, do_parents)]
          /\ callerSet' = [callerSet EXCEPT ![i] = excl.set]
    /\ UNCHANGED <<rawFile, rads_json, radicals, dictKeys, pending, loadState,
                   pickleFile, loader, order, enum, db, io>>

\* the characters added to exclusions are added to the set of the store that
\* the first loop iterates as well
StoreWithExcluded(rad, g) ==
    IF g.args.char \in DOMAIN rad /\ g.out # <<>>
    THEN [rad EXCEPT ![g.args.char].descendants_left =
                        @ \cup {g.out[k].char : k \in 1..Len(g.out)}]
    ELSE rad

\* the dict after next() has run the generator g: the code looks nodes up
\* (lines 148, 153, 172, 177, 198-202) and iterates their descendant sets
\* (lines 205-227); what it adds, it adds to exclusions (lines 157, 186)
StoreAfterSearch(rad, g) == rad

\* the set object that the exclusions parameter of search i is bound to at
\* the call: the set passed by the caller (line 138), the search's own when
\* None is passed
SetId(i) == IF gens[i].args.exclusions = Null THEN i ELSE gens[i].args.exclusions

Resume(i) ==
    /\ gens[i].status \in {"created", "suspended"}
    /\ LET g == Resumed(gens[i], callerSet[SetId(i)], radicals, order)
       IN  /\ gens' = [gens EXCEPT ![i] =
                         [g EXCEPT !.callerv = {},
                                   !.status = IF g.status = "yield" THEN "suspended"
                                              ELSE g.status]]
           /\ callerSet' = [callerSet EXCEPT ![SetId(i)] = g.callerv]
           /\ radicals' = StoreAfterSearch(radicals, g)
    /\ UNCHANGED <<rawFile, rads_json, dictKeys, pending, loadState, pickleFile,
                   loader, order, enum, db, io>>

---------------------------------------------------------------------------
(* enumerate_sorted: a generator.  Its state is the local variables of      *)
(* enumerate_sorted and of the running explore_lr_bfs.                      *)

\* lines 282-285, find_roots: the keys of the dict, in its order, that have
\* no parents
find_roots(rad, keys) ==
    LET IsRoot(c) == rad[c].parent = NoParent
    IN  SelectSeq(keys, IsRoot)

\* zero strokes compared as the number zero
KeyLessZeroFirst(rad, a, b) == rad[a].num_strokes < rad[b].num_strokes

\* lines 323-328: key(a) < key(b), the key of zero strokes being math.inf
KeyLess(rad, a, b) ==
    /\ rad[a].num_strokes # 0
    /\ (rad[b].num_strokes = 0 \/ rad[a].num_strokes < rad[b].num_strokes)

\* line 330, sorted(iterable, key=key): a stable sort, the first of the
\* smallest elements first
RECURSIVE stroke_sort(_, _)
stroke_sort(seq, rad) ==
    IF seq = <<>> THEN <<>>
    ELSE LET i == CHOOSE i \in 1..Len(seq) :
                     /\ \A j \in 1..Len(seq) : ~KeyLess(rad, seq[j], seq[i])
                     /\ \A j \in 1..(i - 1) : KeyLess(rad, seq[i], seq[j])
         IN  <<seq[i]>> \o
             stroke_sort(SubSeq(seq, 1, i - 1) \o SubSeq(seq, i + 1, Len(seq)), rad)

\* no call yet
IdleEnum ==
    [status |-> "none", args |-> [given |-> FALSE, set |-> {}], pc |-> "start",
     everything |-> FALSE, seen |-> {}, roots |-> <<>>, root |-> Null,
     lq |-> <<>>, rq |-> <<>>, visited |-> <<>>, out |-> <<>>, pops |-> <<>>]

\* line 313: not whitelist (None, or a container without elements)
NotWhitelist(e) == ~e.args.given \/ e.args.set = {}

\* line 350: v in whitelist
InWhitelist(e, v) == e.everything \/ v \in e.args.set

\* the root of the traversal is never taken as seen
do_queued_root_unseen(e, v, rad, ord) ==
    IF v \in e.seen \ {e.root}
    THEN e
    ELSE LET e1 == [e EXCEPT
                      !.seen = @ \cup {v},
                      !.visited = Append(@, v),
                      !.lq = @ \o stroke_sort(SetToSeq(rad[v].descendants_left, ord), rad),
                      !.rq = @ \o stroke_sort(SetToSeq(rad[v].descendants_right, ord), rad)]
         IN  IF InWhitelist(e, v) /\ rad[v].num_strokes # 0
             THEN [e1 EXCEPT !.status = "yield",
                             !.out = Append(@, [char |-> v, root |-> e.root])]
             ELSE e1

\* the left descendants go to the right-queue and the right ones to the left
do_queued_crossed(e, v, rad, ord) ==
    IF v \in e.seen
    THEN e
    ELSE LET e1 == [e EXCEPT
                      !.seen = @ \cup {v},
                      !.visited = Append(@, v),
                      !.lq = @ \o stroke_sort(SetToSeq(rad[v].descendants_right, ord), rad),
                      !.rq = @ \o stroke_sort(SetToSeq(rad[v].descendants_left, ord), rad)]
         IN  IF InWhitelist(e, v) /\ rad[v].num_strokes # 0
             THEN [e1 EXCEPT !.status = "yield",
                             !.out = Append(@, [char |-> v, root |-> e.root])]
             ELSE e1

\* lines 342-353, do_queued(v), and the yield of lines 359-360 and 364-365;
\* visited lists the characters in the order they were added to seen
do_queued(e, v, rad, ord) ==
    IF v \in e.seen
    THEN e
    ELSE LET e1 == [e EXCEPT
                      !.seen = @ \cup {v},
                      !.visited = Append(@, v),
                      !.lq = @ \o stroke_sort(SetToSeq(rad[v].descendants_left, ord), rad),
                      !.rq = @ \o stroke_sort(SetToSeq(rad[v].descendants_right, ord), rad)]
         IN  IF InWhitelist(e, v) /\ rad[v].num_strokes # 0
             THEN [e1 EXCEPT !.status = "yield",
                             !.out = Append(@, [char |-> v, root |-> e.root])]
             ELSE e1

\* lines 357-358 and 362-363: v = queue.pop(0); v = do_queued(v).  pops lists
\* the nodes in the order they were taken from the queues, with both queues
\* before the pop and after do_queued
Dequeue(e, queue, rad, ord) ==
    LET v  == Head(e[queue])
        e1 == do_queued([e EXCEPT ![queue] = Tail(@)], v, rad, ord)
    IN  [e1 EXCEPT !.pops = Append(@,
            [queue |-> queue, char |-> v, root |-> e.root, first |-> v \notin e.seen,
             lq_before |-> e.lq, rq_before |-> e.rq,
             lq_after |-> e1.lq, rq_after |-> e1.rq])]

\* one step of the generator's code
EnumStep(e, rad, keys, ord) ==
    CASE e.pc = "start" ->
           \* lines 313-319 and 368
           [e EXCEPT !.everything = NotWhitelist(e), !.seen = {},
                     !.roots = stroke_sort(find_roots(rad, keys), rad), !.pc = "for"]
      [] e.pc = "for" ->
           \* lines 368-369 and 339-340
           IF e.roots = <<>>
           THEN [e EXCEPT !.status = "done"]
           ELSE [e EXCEPT !.root = Head(e.roots), !.roots = Tail(e.roots),
                          !.lq = <<Head(e.roots)>>, !.rq = <<Head(e.roots)>>,
                          !.pc = "while"]
      [] e.pc = "while" ->
           \* line 355
           IF Len(e.lq) + Len(e.rq) > 0
           THEN [e EXCEPT !.pc = "lq"]
           ELSE [e EXCEPT !.pc = "for"]
      [] e.pc = "lq" ->
           \* lines 356-360
           IF e.lq = <<>>
           THEN [e EXCEPT !.pc = "rq"]
           ELSE Dequeue(e, "lq", rad, ord)
      [] e.pc = "rq" ->
           \* lines 361-365
           IF e.rq = <<>>
           THEN [e EXCEPT !.pc = "while"]
           ELSE Dequeue(e, "rq", rad, ord)

\* next(generator): the code runs to its next yield or to its end
RECURSIVE RunEnum(_, _, _, _)
RunEnum(e, rad, keys, ord) ==
    IF e.status # "run" THEN e ELSE RunEnum(EnumStep(e, rad, keys, ord), rad, keys, ord)

\* the generator run to its end: list(generator)
RECURSIVE Enumerated(_, _, _, _)
Enumerated(e, rad, keys, ord) ==
    IF e.status = "done" THEN e
    ELSE Enumerated(RunEnum([e EXCEPT !.status = "run"], rad, keys, ord), rad, keys, ord)

\* the characters a caller puts in a whitelist
WhiteChars == {1, 4}

\* the whitelist argument of a call: None, or a set of characters
WhiteArgs ==
    {[given |-> FALSE, set |-> {}]}
    \cup {[given |-> TRUE, set |-> s] : s \in SUBSET WhiteChars}

\* enumerate_sorted(radicals, whitelist): the generator object; none of its
\* code has run
EnumCall ==
    /\ loadState = "loaded"
    /\ enum.status = "none"
    /\ \E whitelist \in WhiteArgs :
          enum' = [IdleEnum EXCEPT !.status = "created", !.args = whitelist]
    /\ UNCHANGED <<rawFile, rads_json, radicals, dictKeys, pending, loadState,
                   pickleFile, loader, order, callerSet, gens, db, io>>

EnumNext ==
    /\ enum.status \in {"created", "suspended"}
    /\ LET e == RunEnum([enum EXCEPT !.status = "run"], radicals, dictKeys, order)
       IN  enum' = [e EXCEPT !.status = IF e.status = "yield" THEN "suspended"
                                        ELSE e.status]
    /\ UNCHANGED <<rawFile, rads_json, radicals, dictKeys, pending, loadState,
                   pickleFile, loader, order, callerSet, gens, db, io>>

---------------------------------------------------------------------------
(* database.py: the Database object, add_text and generate.  A character   *)
(* is its code point, a file the sequence of its bytes.                    *)

\* lines 42-49: Database()
NewDatabase ==
    [cycle |-> 0, chars |-> <<>>, first_seen |-> <<>>, max_used |-> 1,
     max_occurrences |-> 0, input_hashes |-> <<>>, blacklist |-> {}]

\* no call yet
IdleIo ==
    [op |-> "none", ret |-> "none", adds |-> 0, known |-> FALSE,
     chars_before |-> <<>>, output |-> <<>>]

\* charhandling.py lines 8-49, is_hanzi(char), on the code point of char
is_hanzi(codepoint) ==
    IF codepoint < 13312 THEN FALSE               \* 0x3400
    ELSE IF codepoint > 195103 THEN FALSE         \* 0x2FA1F
    ELSE IF codepoint <= 19903 THEN TRUE          \* 0x4DBF
    ELSE IF codepoint < 19968 THEN FALSE          \* 0x4E00
    ELSE IF codepoint <= 40959 THEN TRUE          \* 0x9FFF
    ELSE IF codepoint < 63744 THEN FALSE          \* 0xF900
    ELSE IF codepoint <= 64255 THEN TRUE          \* 0xFAFF
    ELSE IF codepoint < 131072 THEN FALSE         \* 0x20000
    ELSE TRUE

\* line 84, data.decode(encoding='utf-8'): the code points of the text, or
\* ok = FALSE where Python raises UnicodeDecodeError
RECURSIVE decode(_)
decode(data) ==
    IF data = <<>> THEN [ok |-> TRUE, text |-> <<>>]
    ELSE LET b == data[1]
             n == CASE b < 128 -> 1
                    [] b >= 194 /\ b <= 223 -> 2
                    [] b >= 224 /\ b <= 239 -> 3
                    [] b >= 240 /\ b <= 244 -> 4
                    [] OTHER -> 0
             Continuation(k) == data[k] >= 128 /\ data[k] <= 191
         IN  IF \/ n = 0
                \/ Len(data) < n
                \/ \E k \in 2..n : ~Continuation(k)
                \/ b = 224 /\ data[2] < 160
                \/ b = 237 /\ data[2] > 159
                \/ b = 240 /\ data[2] < 144
                \/ b = 244 /\ data[2] > 143
             THEN [ok |-> FALSE, text |-> <<>>]
             ELSE LET codepoint ==
                        CASE n = 1 -> b
                          [] n = 2 -> (b - 192) * 64 + (data[2] - 128)
                          [] n = 3 -> (b - 224) * 4096 + (data[2] - 128) * 64
                                      + (data[3] - 128)
                          [] n = 4 -> (b - 240) * 262144 + (data[2] - 128) * 4096
                                      + (data[3] - 128) * 64 + (data[4] - 128)
                      rest == decode(SubSeq(data, n + 1, Len(data)))
                  IN  [ok |-> rest.ok, text |-> <<codepoint>> \o rest.text]

\* line 67, hashlib.sha512(data).digest(): the digest of a file stands for
\* the bytes it was computed from (no two files have the same digest)
sha512(data) == [digest_of |-> data]

\* lines 96-107: the loop over the characters of the text; new_characters is
\* the list of those first seen
RECURSIVE CountText(_, _, _, _)
CountText(d, text, label, new_characters) ==
    IF text = <<>> THEN [db |-> d, new_characters |-> new_characters]
    ELSE LET c == Head(text)
         IN  IF ~is_hanzi(c)
             THEN CountText(d, Tail(text), label, new_characters)
             ELSE IF c \notin DOMAIN d.chars
             THEN CountText([d EXCEPT !.chars = (c :> <<1, 0, 0>>) @@ @,
                                      !.first_seen = (c :> label) @@ @],
                            Tail(text), label, Append(new_characters, c))
             ELSE LET occ == d.chars[c][1] + 1
                  IN  CountText([d EXCEPT !.chars[c][1] = occ,
                                          !.max_occurrences = IF occ > @ THEN occ ELSE @],
                                Tail(text), label, new_characters)

\* lines 72-76: the label of a file already added is changed, and with it
\* the label of the characters the file introduced; IndexError at line 73
\* when the list of the file holds the label only
Relabel(d, hash, label) ==
    LET d1 == [d EXCEPT !.input_hashes[hash][1] = label]
    IN  IF Len(d1.input_hashes[hash]) < 2
        THEN [db |-> d1, ret |-> "IndexError"]
        ELSE LET introduced == Range(d1.input_hashes[hash][2])
             IN  [db |-> [d1 EXCEPT !.first_seen =
                             [c \in DOMAIN @ |-> IF c \in introduced THEN label ELSE @[c]]],
                  ret |-> "True"]

\* lines 56-112, add_text(db, path, label, override_hashing): file is what
\* is at path, choice the answer typed at the prompt of line 71
add_text(d, file, label, override_hashing, choice) ==
    IF ~file.readable
    THEN [db |-> d, ret |-> "False", known |-> FALSE]
    ELSE LET data  == file.data
             known == ~override_hashing /\ sha512(data) \in DOMAIN d.input_hashes
         IN  IF known
             THEN IF choice = "y"
                  THEN LET r == Relabel(d, sha512(data), label)
                       IN  [db |-> r.db, ret |-> r.ret, known |-> TRUE]
                  ELSE [db |-> d, ret |-> "False", known |-> TRUE]
             ELSE LET d1 == IF override_hashing THEN d
                            ELSE [d EXCEPT !.input_hashes = (sha512(data) :> <<label>>) @@ @]
                      t  == decode(data)
                  IN  IF ~t.ok
                      THEN [db |-> d1, ret |-> "False", known |-> FALSE]
                      ELSE LET c == CountText(d1, t.text, label, <<>>)
                           IN  [db |-> IF override_hashing THEN c.db
                                       ELSE [c.db EXCEPT !.input_hashes[sha512(data)] =
                                                Append(@, c.new_characters)],
                                ret |-> "True", known |-> FALSE]

\* the files a user adds: 好; 好如; 好a好; the first two bytes of 好; and a
\* path that cannot be read
Disk ==
    {[readable |-> TRUE, data |-> <<229, 165, 189>>],
     [readable |-> TRUE, data |-> <<229, 165, 189, 229, 166, 130>>],
     [readable |-> TRUE, data |-> <<229, 165, 189, 97, 229, 165, 189>>],
     [readable |-> TRUE, data |-> <<229, 165>>],
     [readable |-> FALSE, data |-> <<>>]}

Labels == {"one", "two"}

AddText ==
    /\ io.adds < MaxAdds
    /\ \E file \in Disk, label \in Labels, override_hashing \in BOOLEAN,
          choice \in {"y", "n"} :
          LET r == add_text(db, file, label, override_hashing, choice)
          IN  /\ db' = r.db
              /\ io' = [op |-> "add_text", ret |-> r.ret, adds |-> io.adds + 1,
                        known |-> r.known, chars_before |-> db.chars,
                        output |-> <<>>]
    /\ UNCHANGED <<rawFile, rads_json, radicals, dictKeys, pending, loadState,
                   pickleFile, loader, order, callerSet, gens, enum>>

\* lines 128-146: the characters with a score above zero.  The score is
\* (occur_score * 2 + used_score) * since_last, whose first factor is
\* positive (times_occurred is 1 or more), so it is zero when since_last is
\* zero and positive otherwise
Scored(d) ==
    {c \in DOMAIN d.chars : c \notin d.blacklist /\ d.cycle - d.chars[c][3] > 0}

\* the lists of n different elements of S
Selections(S, n) ==
    {q \in [1..n -> S] : \A a, b \in 1..n : q[a] = q[b] => a = b}

\* lines 157-167: the usage of the selected characters is updated
RECURSIVE Select(_, _)
Select(d, output) ==
    IF output = <<>> THEN d
    ELSE LET c    == Head(output)
             used == d.chars[c][2] + 1
         IN  Select([d EXCEPT !.chars[c] = <<@[1], used, d.cycle>>,
                              !.max_used = IF used > @ THEN used ELSE @],
                    Tail(output))

\* lines 120-169, generate(db, n_chars): raises when max_occurrences is
\* below 1; numpy raises ValueError when fewer than n_chars characters have
\* a score above zero; else n_chars of them are drawn without replacement
Generate ==
    /\ db.cycle < MaxCycle
    /\ \E n_chars \in 1..MaxSelect :
          LET d == [db EXCEPT !.cycle = @ + 1]
              told == [op |-> "generate", adds |-> io.adds, known |-> FALSE,
                       chars_before |-> db.chars, output |-> <<>>, ret |-> "none"]
          IN  IF d.max_occurrences < 1
              THEN /\ db' = d
                   /\ io' = [told EXCEPT !.ret = "Exception"]
              ELSE IF Cardinality(Scored(d)) < n_chars
              THEN /\ db' = d
                   /\ io' = [told EXCEPT !.ret = "ValueError"]
              ELSE \E output \in Selections(Scored(d), n_chars) :
                      /\ db' = Select(d, output)
                      /\ io' = [told EXCEPT !.ret = "output", !.output = output]
    /\ UNCHANGED <<rawFile, rads_json, radicals, dictKeys, pending, loadState,
                   pickleFile, loader, order, callerSet, gens, enum>>

---------------------------------------------------------------------------
(* Raw tables of the searches.  1 is 女, 2 is 子, 3 is 口: components      *)
(* without a decomposition; 4, 5 and 6 are composed characters; 7 is       *)
(* in no table.                                                            *)

Root(s) == <<s, "null", Null>>

\* {好: [6, LR, 女, 子], 子: [3, null, null], 女: [3, null, null]}
TableHao == (4 :> <<6, "LR", 1, 2>>) @@ (2 :> Root(3)) @@ (1 :> Root(3))

\* ... and 如: [6, t, 女, 口]
TableHaoRu(t) == TableHao @@ (5 :> <<6, t, 1, 3>>)

\* 5 is the left parent of 6 and shares its own left parent with 4, a sibling of 6
TableParents ==
    (4 :> <<6, "LR", 1, 2>>) @@ (5 :> <<4, "LR", 1, 1>>) @@ (6 :> <<9, "LR", 5, 2>>)

\* 4, a sibling of the parent 5 of 6, shares no component with 6
TableGrandLeft ==
    (4 :> <<6, "LR", 1, 1>>) @@ (5 :> <<4, "TB", 1, 3>>) @@ (6 :> <<9, "LR", 5, 2>>)

TableGrandRight ==
    (4 :> <<6, "LR", 1, 1>>) @@ (5 :> <<4, "TB", 1, 3>>) @@ (6 :> <<9, "LR", 2, 5>>)

\* 5 is an alternate of 4, and 6 a sibling of 5 that shares no component with 4
TableFar ==
    (4 :> <<6, "LR", 1, 2>>) @@ (5 :> <<6, "LR", 2, 3>>) @@ (6 :> <<8, "LR", 3, 3>>)

\* a chain 4 - 5 - 6 of siblings, 6 on the opposite side of a component of 4
TableChain ==
    (4 :> <<6, "LR", 1, 2>>) @@ (5 :> <<7, "TB", 1, 3>>) @@ (6 :> <<9, "LR", 2, 3>>)
    @@ (1 :> Root(3))

\* the same components on opposite sides
TableAlternates ==
    (4 :> <<6, "LR", 1, 2>>) @@ (5 :> <<6, "LR", 2, 1>>) @@ (6 :> <<7, "TB", 2, 3>>)

\* 4 is its own right component
TableSelfRight ==
    (4 :> <<5, "LR", 1, 4>>) @@ (5 :> <<6, "LR", 1, 4>>) @@ (6 :> <<6, "TB", 4, 4>>)

\* 4 and 5 are each other's left component
TableMutual ==
    (4 :> <<5, "LR", 5, 1>>) @@ (5 :> <<5, "TB", 4, 1>>) @@ (6 :> <<7, "LR", 4, 5>>)

\* 4 names itself as left component, 6 has no right component
TableSelfLeft ==
    (4 :> <<5, "LR", 4, 1>>) @@ (5 :> <<8, "LR", 4, 1>>) @@ (6 :> <<4, "LR", 1>>)

Tables ==
    {TableHao, TableHaoRu("LR"), TableHaoRu("TB"), TableParents, TableGrandLeft,
     TableGrandRight, TableFar, TableChain, TableAlternates, TableSelfRight,
     TableMutual, TableSelfLeft}

\* the characters whose relative order in a set iteration may matter
Composed == {c \in Chars : \E t \in Tables : c \in DOMAIN t /\ Len(t[c]) = 4 /\ t[c][4] # Null}

\* the iteration orders of the process: a ranking of the characters
Orders ==
    {[c \in Chars |-> IF c \in Composed THEN p[c] ELSE c] :
        p \in {q \in [Composed -> Composed] : \A a, b \in Composed : q[a] = q[b] => a = b}}

\* the order in which sets iterate their elements in ascending order
AscendingOrder == [c \in Chars |-> c]

\* the characters of a table as a file lists them in ascending order
Ascending(json) == SetToSeq(DOMAIN json, [c \in DOMAIN json |-> c])

Init ==
    /\ rawFile \in Tables
    /\ rads_json = [c \in DOMAIN rawFile |-> PadEntry(rawFile[c])]
    /\ radicals = load_from_json(rawFile)
    /\ dictKeys = LoadKeys(<<>>, rawFile, Ascending(rawFile))
    /\ pending = {}
    /\ loadState = "loaded"
    /\ pickleFile = NoFile
    /\ loader = IdleLoader
    /\ order \in Orders
    /\ callerSet = [i \in Searches |-> {}]
    /\ gens = [i \in Searches |-> IdleGen]
    /\ enum = IdleEnum
    /\ db = NewDatabase
    /\ io = IdleIo

Next == \E i \in Searches : Call(i) \/ Resume(i)

Spec == Init /\ [][Next]_vars

---------------------------------------------------------------------------
(* load_from_json on the raw tables of two keys and on the tables of the     *)
(* searches                                                                 *)

Keys == {1, 2}

\* the components an entry may name: the keys and a character without entry
Components == {1, 2, 3}

RawEntries ==
    {<<s, "LR">> : s \in 1..MaxStrokes}
    \cup {<<s, "LR", l>> : s \in 1..MaxStrokes, l \in Components \cup {Null}}
    \cup {<<s, t, l, r>> : s \in 1..MaxStrokes, t \in {"LR", "TB"},
                            l \in Components \cup {Null}, r \in Components \cup {Null}}

RawTables == UNION {[K -> RawEntries] : K \in (SUBSET Keys) \ {{}}}

InitBuild ==
    /\ rawFile \in RawTables \cup Tables
    /\ rads_json = rawFile
    /\ radicals = EmptyDict
    /\ dictKeys = <<>>
    /\ pending = DOMAIN rawFile
    /\ loadState = "loading"
    /\ pickleFile = NoFile
    /\ loader = IdleLoader
    /\ order = AscendingOrder
    /\ callerSet = [i \in Searches |-> {}]
    /\ gens = [i \in Searches |-> IdleGen]
    /\ enum = IdleEnum
    /\ db = NewDatabase
    /\ io = IdleIo

NextBuild == (\E char \in Chars : LoadEntry(char)) \/ LoadReturn

SpecBuild == InitBuild /\ [][NextBuild]_vars

---------------------------------------------------------------------------
(* load on the raw tables of two keys: the pickle file is missing, cannot   *)
(* be read, or was written by an earlier process for another table          *)

\* the pickle file of the store of TableHao
StaleFile ==
    pickle_dump(load_from_json(TableHao), LoadKeys(<<>>, TableHao, Ascending(TableHao)),
                AscendingOrder)

InitLoad ==
    /\ rawFile \in RawTables
    /\ rads_json = NoTable
    /\ radicals = EmptyDict
    /\ dictKeys = <<>>
    /\ pending = {}
    /\ loadState = "idle"
    /\ pickleFile \in {NoFile, CorruptFile, StaleFile}
    /\ loader = IdleLoader
    /\ order = AscendingOrder
    /\ callerSet = [i \in Searches |-> {}]
    /\ gens = [i \in Searches |-> IdleGen]
    /\ enum = IdleEnum
    /\ db = NewDatabase
    /\ io = IdleIo

NextLoad == Load \/ (\E char \in Chars : LoadEntry(char)) \/ LoadReturn \/ LoadDump

SpecLoad == InitLoad /\ [][NextLoad]_vars

---------------------------------------------------------------------------
(* enumerate_sorted on the stores of the tables of the searches and of two  *)
(* more, the file listing the characters in any order                       *)

\* 4 and 5 are each other's only components: no root is an ancestor of them
TableRootless ==
    (4 :> <<5, "LR", 5, 5>>) @@ (5 :> <<5, "LR", 4, 4>>) @@ (1 :> Root(2))

\* 3 has no entry; 5 descends from 3 only; 6 has no strokes and is no root
TableSpecials ==
    (1 :> Root(4)) @@ (2 :> Root(2)) @@ (4 :> <<6, "LR", 1, 2>>)
    @@ (5 :> <<3, "LR", 3, 3>>) @@ (6 :> <<0, "LR", 2, 3>>)

EnumTables == Tables \cup {TableRootless, TableSpecials}

\* the orders in which a file can list the characters of S
FileOrders(S) ==
    {q \in [1..Cardinality(S) -> S] : \A a, b \in 1..Cardinality(S) : q[a] = q[b] => a = b}

InitEnum ==
    /\ rawFile \in EnumTables
    /\ rads_json = [c \in DOMAIN rawFile |-> PadEntry(rawFile[c])]
    /\ radicals = load_from_json(rawFile)
    /\ \E todo \in FileOrders(DOMAIN rawFile) : dictKeys = LoadKeys(<<>>, rawFile, todo)
    /\ pending = {}
    /\ loadState = "loaded"
    /\ pickleFile = NoFile
    /\ loader = IdleLoader
    /\ order \in Orders
    /\ callerSet = [i \in Searches |-> {}]
    /\ gens = [i \in Searches |-> IdleGen]
    /\ enum = IdleEnum
    /\ db = NewDatabase
    /\ io = IdleIo

NextEnum == EnumCall \/ EnumNext

SpecEnum == InitEnum /\ [][NextEnum]_vars

---------------------------------------------------------------------------
(* searches and enumerations of one process on the same store, in any order *)

UseTables == {TableParents, TableMutual}

InitUse ==
    /\ rawFile \in UseTables
    /\ rads_json = [c \in DOMAIN rawFile |-> PadEntry(rawFile[c])]
    /\ radicals = load_from_json(rawFile)
    /\ dictKeys = LoadKeys(<<>>, rawFile, Ascending(rawFile))
    /\ pending = {}
    /\ loadState = "loaded"
    /\ pickleFile = NoFile
    /\ loader = IdleLoader
    /\ order = AscendingOrder
    /\ callerSet = [i \in Searches |-> {}]
    /\ gens = [i \in Searches |-> IdleGen]
    /\ enum = IdleEnum
    /\ db = NewDatabase
    /\ io = IdleIo

NextUse == (\E i \in Searches : Call(i) \/ Resume(i)) \/ EnumCall \/ EnumNext

SpecUse == InitUse /\ [][NextUse]_vars

---------------------------------------------------------------------------
(* two searches of one process on the same store, resumed in any order; the *)
(* second may be given the set object of the first as its exclusions        *)

Pair == {1, 2}

PairTables == {TableHaoRu("LR"), TableChain, TableMutual}

PairDistances == {COST_DIFFERENT_RADICAL, MaxHalves * COST_DIFFERENT_SIDE}

\* the sets a caller of two searches makes: empty, or holding one character
PairSets == {{}, {6}}

\* characters_within(radicals, char, max_distance, exclusions, ...) called
\* as search i: exclusions is None, a new set of the caller, or the set
\* object j that the caller has already passed to the other search
CallPair(i) ==
    /\ loadState = "loaded"
    /\ gens[i].status = "none"
    /\ \E char \in Composed, max_distance \in PairDistances,
          do_parent_alternates \in BOOLEAN :
          \/ \E excl \in {[given |-> FALSE, set |-> {}]}
                          \cup {[given |-> TRUE, set |-> t] : t \in PairSets} :
                /\ gens' = [gens EXCEPT ![i] =
                              NewGen(i, char, max_distance, excl, FALSE,
                                     do_parent_alternates, TRUE)]
                /\ callerSet' = [callerSet EXCEPT ![i] = excl.set]
          \/ \E j \in Pair \ {i} :
                /\ gens[j].args.exclusions = j
                /\ gens' = [gens EXCEPT ![i] =
                              NewGen(j, char, max_distance,
                                     [given |-> TRUE, set |-> callerSet[j]], FALSE,
                                     do_parent_alternates, TRUE)]
                /\ UNCHANGED callerSet
    /\ UNCHANGED <<rawFile, rads_json, radicals, dictKeys, pending, loadState,
                   pickleFile, loader, order, enum, db, io>>

InitPair ==
    /\ rawFile \in PairTables
    /\ rads_json = [c \in DOMAIN rawFile |-> PadEntry(rawFile[c])]
    /\ radicals = load_from_json(rawFile)
    /\ dictKeys = LoadKeys(<<>>, rawFile, Ascending(rawFile))
    /\ pending = {}
    /\ loadState = "loaded"
    /\ pickleFile = NoFile
    /\ loader = IdleLoader
    /\ order = AscendingOrder
    /\ callerSet = [i \in Pair |-> {}]
    /\ gens = [i \in Pair |-> IdleGen]
    /\ enum = IdleEnum
    /\ db = NewDatabase
    /\ io = IdleIo

NextPair == \E i \in Pair : CallPair(i) \/ Resume(i)

SpecPair == InitPair /\ [][NextPair]_vars

---------------------------------------------------------------------------
(* texts added to a new Database, and lists generated from it, in any order *)

InitDb ==
    /\ rawFile = TableHao
    /\ rads_json = [c \in DOMAIN rawFile |-> PadEntry(rawFile[c])]
    /\ radicals = load_from_json(rawFile)
    /\ dictKeys = LoadKeys(<<>>, rawFile, Ascending(rawFile))
    /\ pending = {}
    /\ loadState = "loaded"
    /\ pickleFile = NoFile
    /\ loader = IdleLoader
    /\ order = AscendingOrder
    /\ callerSet = [i \in Searches |-> {}]
    /\ gens = [i \in Searches |-> IdleGen]
    /\ enum = IdleEnum
    /\ db = NewDatabase
    /\ io = IdleIo

NextDb == AddText \/ Generate

SpecDb == InitDb /\ [][NextDb]_vars

---------------------------------------------------------------------------
(* Properties of characters_within *)

\* the characters a generator has yielded so far
Yielded(g) == {g.out[k].char : k \in 1..Len(g.out)}

\* the (character, distance) pairs the outermost invocation yielded from the
\* loops named in phases
TopPairs(g, phases) ==
    {<<g.out[k].char, g.out[k].distance>> :
        k \in {j \in 1..Len(g.out) : g.out[j].kind = "top" /\ g.out[j].phase \in phases}}

SiblingLoops == {"left_siblings", "right_siblings"}

AlternateLoops == {"left_alternates", "right_alternates"}

\* search i was called with a set as exclusions, from a node of the store, and
\* was consumed to its end
ConsumedWithSet(i) ==
    /\ gens[i].status = "done"
    /\ gens[i].args.exclusions # Null
    /\ ~KeyError(radicals, gens[i].args.char)

\* C1: after a search from a node of the store that was consumed to its end,
\* the set the caller passed as exclusions (empty or not) holds what it held
\* before, the start character and every yielded character.
C1_ExclusionsSuperset ==
    \A i \in Searches :
        ConsumedWithSet(i) =>
            gens[i].args.before \cup {gens[i].args.char} \cup Yielded(gens[i])
                \subseteq callerSet[i]

\* the same search with its own fresh exclusions set and the two options as given
WithOptions(g, do_parent_alternates, do_parents) ==
    Consumed(NewGen(1, g.args.char, g.args.max_distance, [given |-> FALSE, set |-> {}],
                    g.args.do_stroke_difference, do_parent_alternates, do_parents),
             radicals, order)

\* search i ran to its end on a fresh exclusions set
ConsumedFresh(i) == gens[i].status = "done" /\ gens[i].args.before = {}

\* C2: with fresh exclusions sets and all other arguments equal, every
\* character yielded with do_parent_alternates (do_parents) disabled is also
\* yielded with it enabled.
C2_OptionsMonotonic ==
    \A i \in Searches :
        ConsumedFresh(i) =>
            LET g == gens[i]
            IN  /\ ~g.args.do_parent_alternates =>
                      Yielded(g) \subseteq Yielded(WithOptions(g, TRUE, g.args.do_parents))
                /\ ~g.args.do_parents =>
                      Yielded(g) \subseteq
                          Yielded(WithOptions(g, g.args.do_parent_alternates, TRUE))

\* next() on search i returns: the code reaches a yield, one result more, or
\* the generator ends
NextReturns(i) ==
    gens[i].status \in {"created", "suspended"} =>
        LET g == Resumed(gens[i], callerSet[i], radicals, order)
        IN  \/ g.status \in {"done", "error"}
            \/ g.status = "yield" /\ Len(g.out) = Len(gens[i].out) + 1

\* the results of search i are fewer than the nodes of the store
FewerThanNodes(i) == Len(gens[i].out) < Cardinality(DOMAIN radicals)

\* every recursive invocation started so far has a base distance at least
\* COST_DIFFERENT_RADICAL above its caller's and not above max_distance
RecursionBounded ==
    \A i \in Searches : \A k \in 1..Len(gens[i].calls) :
        LET c == gens[i].calls[k]
        IN  /\ c.distance >= c.caller_base + COST_DIFFERENT_RADICAL
            /\ c.distance <= gens[i].args.max_distance

\* C3: a search ends on every store, with or without cycles in the component
\* relation: every next() returns, the results are fewer than the nodes of
\* the store, and every recursive invocation starts at least
\* COST_DIFFERENT_RADICAL above its caller's base distance and not above
\* max_distance.
C3_Terminates ==
    /\ \A i \in Searches : NextReturns(i) /\ FewerThanNodes(i)
    /\ RecursionBounded

\* a search on a store with a cycle has recursed, yielded and ended
C3_Witness ==
    \E i \in Searches :
        /\ rawFile \in {TableSelfRight, TableMutual}
        /\ gens[i].status = "done"
        /\ Len(gens[i].calls) >= 2
        /\ Len(gens[i].out) >= 2

\* search i was called from a node of the store that has no parent
FromRoot(i) ==
    /\ gens[i].status # "none"
    /\ gens[i].args.char \in DOMAIN radicals
    /\ radicals[gens[i].args.char].parent = NoParent

\* C4: a search from a character without parent yields nothing and ends at
\* the first next(), whatever the other arguments are.
C4_RootYieldsNothing ==
    \A i \in Searches :
        FromRoot(i) =>
            /\ gens[i].out = <<>>
            /\ gens[i].calls = <<>>
            /\ gens[i].status \in {"created", "done"}

\* a search from a root with descendants, with a non-empty exclusions set, has ended
C4_Witness ==
    \E i \in Searches :
        /\ FromRoot(i)
        /\ gens[i].status = "done"
        /\ radicals[gens[i].args.char].descendants_left # {}
        /\ gens[i].args.before # {}

\* C5: every yielded pair, of the outermost or of a recursive invocation, has
\* a distance of at most max_distance.
C5_WithinMaxDistance ==
    \A i \in Searches : \A k \in 1..Len(gens[i].out) :
        gens[i].out[k].distance <= gens[i].args.max_distance

\* a recursive invocation has yielded a character at exactly max_distance
C5_Witness ==
    \E i \in Searches : \E k \in 1..Len(gens[i].out) :
        /\ gens[i].out[k].kind # "top"
        /\ gens[i].out[k].distance = gens[i].args.max_distance

\* C6: in the outermost invocation no result of the sibling loops is below
\* COST_DIFFERENT_RADICAL, none of the alternate loops below
\* COST_DIFFERENT_RADICAL + COST_DIFFERENT_SIDE, and a search with max_distance
\* below COST_DIFFERENT_RADICAL yields nothing.
C6_LowerBounds ==
    \A i \in Searches :
        /\ \A p \in TopPairs(gens[i], SiblingLoops) : p[2] >= COST_DIFFERENT_RADICAL
        /\ \A p \in TopPairs(gens[i], AlternateLoops) :
              p[2] >= COST_DIFFERENT_RADICAL + COST_DIFFERENT_SIDE
        /\ gens[i].args.max_distance < COST_DIFFERENT_RADICAL => gens[i].out = <<>>

\* an outermost invocation has yielded a sibling and an alternate
C6_Witness ==
    \E i \in Searches :
        /\ TopPairs(gens[i], SiblingLoops) # {}
        /\ TopPairs(gens[i], AlternateLoops) # {}

\* the place of a phase in the order of emission of one invocation
PhaseRank(pc) ==
    CASE pc = "left_siblings"    -> 1
      [] pc = "right_siblings"   -> 2
      [] pc = "left_alternates"  -> 3
      [] pc = "right_alternates" -> 4
      [] pc = "parent_left"      -> 5
      [] pc = "parent_right"     -> 6
      [] pc = "queued"           -> 7

\* C7: within one invocation the results come phase by phase: left siblings,
\* right siblings, alternates (left parent's, then right parent's), the
\* expansion of the left parent, of the right parent, and then the expansion
\* of the queued candidates; no result of a later phase comes before one of
\* an earlier phase.
C7_EmissionOrder ==
    \A i \in Searches : \A a, b \in 1..Len(gens[i].out) :
        a < b =>
            LET pa == gens[i].out[a].path
                pb == gens[i].out[b].path
            IN  \A k \in 1..Len(pa) :
                    (k <= Len(pb) /\ pa[k].id = pb[k].id) =>
                        PhaseRank(pa[k].pc) <= PhaseRank(pb[k].pc)

\* the phases in which the outermost invocation has yielded
TopPhases(g) == {g.out[k].path[1].pc : k \in 1..Len(g.out)}

\* one search has yielded an alternate and then, from the expansion of that
\* queued alternate, a second character
C7_Witness ==
    \E i \in Searches :
        /\ TopPhases(gens[i]) \cap AlternateLoops # {}
        /\ "queued" \in TopPhases(gens[i])

\* C8: in one search, recursive invocations included, the yielded characters
\* are pairwise distinct, the start is never yielded, and no character of the
\* exclusions set the caller supplied is yielded.
C8_NoRepeats ==
    \A i \in Searches :
        /\ \A a, b \in 1..Len(gens[i].out) :
              gens[i].out[a].char = gens[i].out[b].char => a = b
        /\ gens[i].args.char \notin Yielded(gens[i])
        /\ Yielded(gens[i]) \cap gens[i].args.before = {}

\* the characters that share the left component of c on the left or its
\* right component on the right, c among them
SameSide(c) ==
    radicals[radicals[c].parent[2]].descendants_left
        \cup radicals[radicals[c].parent[3]].descendants_right

\* on the table of the two characters that are each other's component, a
\* search has yielded and recursed although the caller had excluded a sibling
\* of the start
C8_Witness ==
    \E i \in Searches :
        /\ rawFile = TableMutual
        /\ gens[i].status = "done"
        /\ gens[i].args.char \in DOMAIN radicals
        /\ radicals[gens[i].args.char].parent # NoParent
        /\ (gens[i].args.before \ {gens[i].args.char}) \cap SameSide(gens[i].args.char) # {}
        /\ gens[i].out # <<>>
        /\ gens[i].calls # <<>>

\* search i was called from a character that is no node of the store
FromAbsent(i) == gens[i].status # "none" /\ KeyError(radicals, gens[i].args.char)

\* C9: a search from a character that is no node of the store ends in an
\* error, not in the empty result of a parentless start, and leaves the store
\* and the caller's exclusions set as they were.
C9_AbsentStartIsError ==
    \A i \in Searches :
        FromAbsent(i) =>
            /\ gens[i].status \in {"created", "error"}
            /\ gens[i].out = <<>>
            /\ callerSet[i] = gens[i].args.before
            /\ radicals = load_from_json(rawFile)

\* a search from an absent character with a non-empty exclusions set has raised
C9_Witness ==
    \E i \in Searches :
        /\ FromAbsent(i)
        /\ gens[i].status = "error"
        /\ gens[i].args.before # {}

---------------------------------------------------------------------------
(* Properties of load_from_json *)

\* the raw entry of c names two components, the left one not c itself
HasBoth(c) ==
    LET e == rawFile[c]
    IN  Len(e) = 4 /\ e[3] # Null /\ e[4] # Null /\ e[3] # c

\* C10: after the build, the node of every raw entry has the parent
\* (composition type, left, right) exactly when the entry has a left and a
\* right component and the left one is not the character itself, and has no
\* parent otherwise; no node records a single component; the stroke count is
\* the entry's in both cases.
C10_ParentIffBoth ==
    loadState = "loaded" =>
        /\ \A c \in DOMAIN rawFile :
              /\ c \in DOMAIN radicals
              /\ radicals[c].num_strokes = rawFile[c][1]
              /\ radicals[c].parent =
                    IF HasBoth(c)
                    THEN <<rawFile[c][2], rawFile[c][3], rawFile[c][4]>>
                    ELSE NoParent
        /\ \A c \in DOMAIN radicals :
              \/ radicals[c].parent = NoParent
              \/ /\ Len(radicals[c].parent) = 3
                 /\ radicals[c].parent[2] # Null
                 /\ radicals[c].parent[3] # Null

\* a built table with a decomposed character, an entry of three fields and
\* an entry that names itself as left component
C10_Witness ==
    /\ loadState = "loaded"
    /\ DOMAIN rawFile = Keys
    /\ \E c \in Keys : HasBoth(c)
    /\ \E c \in Keys :
          \/ Len(rawFile[c]) = 3
          \/ (Len(rawFile[c]) = 4 /\ rawFile[c][3] = c /\ rawFile[c][4] # Null)

\* C11: in the store load_from_json returns, the two components of every
\* parent are keys of the store, the components of every raw entry that names
\* two included; a node that is no key of the raw table has no parent and
\* zero strokes.
C11_ComponentsAreNodes ==
    loadState = "loaded" =>
        /\ \A c \in DOMAIN radicals :
              radicals[c].parent # NoParent =>
                  /\ radicals[c].parent[2] \in DOMAIN radicals
                  /\ radicals[c].parent[3] \in DOMAIN radicals
        /\ \A c \in DOMAIN rawFile :
              HasBoth(c) => {rawFile[c][3], rawFile[c][4]} \subseteq DOMAIN radicals
        /\ \A c \in (DOMAIN radicals) \ (DOMAIN rawFile) :
              /\ radicals[c].parent = NoParent
              /\ radicals[c].num_strokes = 0

\* a built store with a node that is a component and no key of the raw table
C11_Witness ==
    /\ loadState = "loaded"
    /\ \E c \in DOMAIN rawFile :
          /\ HasBoth(c)
          /\ {rawFile[c][3], rawFile[c][4]} \ (DOMAIN rawFile) # {}

\* C12: in the store load_from_json returns, c is in the left descendants of
\* l exactly when the parent of c has l as left component, and in the right
\* descendants of r exactly when it has r as right component; every member
\* of a descendant set is a node with a parent.  On the table of 好 the
\* parent of 好 is (LR, 女, 子), the left descendants of 女 and the right
\* descendants of 子 are {好}.
C12_DescendantsMirrorParents ==
    loadState = "loaded" =>
        /\ \A l \in DOMAIN radicals :
              radicals[l].descendants_left \cup radicals[l].descendants_right
                  \subseteq {c \in DOMAIN radicals : radicals[c].parent # NoParent}
        /\ \A l \in DOMAIN radicals : \A c \in DOMAIN radicals :
              /\ c \in radicals[l].descendants_left
                    <=> (radicals[c].parent # NoParent /\ radicals[c].parent[2] = l)
              /\ c \in radicals[l].descendants_right
                    <=> (radicals[c].parent # NoParent /\ radicals[c].parent[3] = l)
        /\ rawFile = TableHao =>
              /\ radicals[4].parent = <<"LR", 1, 2>>
              /\ radicals[1].descendants_left = {4}
              /\ radicals[2].descendants_right = {4}

\* a built store in which one component has two descendants on the left and
\* one on the right
C12_Witness ==
    /\ loadState = "loaded"
    /\ \E l \in DOMAIN radicals :
          /\ Cardinality(radicals[l].descendants_left) >= 2
          /\ radicals[l].descendants_right # {}

---------------------------------------------------------------------------
(* Properties of load *)

\* the raw entries of fewer than three fields
ShortEntries == {c \in DOMAIN rawFile : Len(rawFile[c]) < 3}

\* C13: when a raw entry has fewer than three fields, wherever the loop meets
\* it, load_from_json returns no store (the loop cannot end: the entry is
\* still ahead or has raised), and a call of load that runs it returns no
\* store and leaves the pickle file missing.
C13_ShortEntryAborts ==
    ShortEntries # {} =>
        /\ loader.pc = "build" =>
              /\ loadState = "loading"
              /\ ShortEntries \subseteq pending
        /\ \A k \in 1..Len(loader.log) :
              loader.log[k].built =>
                  /\ loader.log[k].outcome # "returned"
                  /\ loader.log[k].store = EmptyDict
                  /\ pickleFile = NoFile

\* load has raised on a short entry met after another entry had been put in
\* the dict
C13_Witness ==
    /\ ShortEntries # {}
    /\ loader.pc = "error"
    /\ loader.log[Len(loader.log)].built
    /\ loadState = "failed"
    /\ radicals # EmptyDict
    /\ pickleFile = NoFile

\* C14 as claimed: after the build every entry of the table has the fields it
\* had before, in the same number.
C14_RawTableUnchanged ==
    loadState = "loaded" =>
        \A c \in DOMAIN rawFile : rads_json[c] = rawFile[c]

\* C14 as amended: the build changes the table only by appending None to the
\* entries of three fields: at any time an entry is as it was or is an entry
\* of three fields with None appended, and after the build every entry has
\* four fields.
C14_EntriesOnlyPadded ==
    /\ DOMAIN rads_json = DOMAIN rawFile
    /\ \A c \in DOMAIN rawFile :
          \/ rads_json[c] = rawFile[c]
          \/ /\ Len(rawFile[c]) = 3
             /\ rads_json[c] = Append(rawFile[c], Null)
    /\ loadState = "loaded" => \A c \in DOMAIN rawFile : Len(rads_json[c]) = 4

\* a built table with an entry of three fields that names a left component
\* and an entry of four fields
C14_Witness ==
    /\ loadState = "loaded"
    /\ \E c \in DOMAIN rawFile : Len(rawFile[c]) = 3 /\ rawFile[c][3] # Null
    /\ \E c \in DOMAIN rawFile : Len(rawFile[c]) = 4

\* C15: a call of load that finds no pickle file runs load_from_json on the
\* raw table; when it returns, its store is the built one and the pickle file
\* exists, and every later call finds the file, does not run load_from_json
\* (which reads the raw table) and returns a store with the same nodes,
\* parents, descendant sets and strokes.
C15_CacheRoundTrip ==
    \A k \in 1..Len(loader.log) :
        /\ ~loader.log[k].cached => loader.log[k].built
        /\ (loader.log[k].built /\ loader.log[k].outcome = "returned") =>
              /\ loader.log[k].store = load_from_json(rawFile)
              /\ pickleFile.exists
              /\ \A j \in (k + 1)..Len(loader.log) :
                    /\ loader.log[j].cached
                    /\ ~loader.log[j].built
                    /\ loader.log[j].outcome = "returned"
                    /\ loader.log[j].store = loader.log[k].store

\* a store with descendants was built and dumped, and two later calls of
\* load have returned
C15_Witness ==
    /\ Len(loader.log) = 3
    /\ loader.log[1].built
    /\ loader.log[3].outcome = "returned"
    /\ \E c \in DOMAIN loader.log[1].store :
          loader.log[1].store[c].descendants_left # {}

\* C16: a call of load that finds a pickle file pickle.load cannot read does
\* not raise, and returns the store rebuilt from the raw table.
C16_CorruptCacheRebuilds ==
    \A k \in 1..Len(loader.log) :
        loader.log[k].corrupt =>
            /\ loader.log[k].outcome # "raised"
            /\ loader.log[k].outcome = "returned" =>
                  loader.log[k].store = load_from_json(rawFile)

---------------------------------------------------------------------------
(* Properties of enumerate_sorted *)

\* the characters an enumeration has yielded so far, in their order
EnumOut(e) == [k \in 1..Len(e.out) |-> e.out[k].char]

\* no element occurs twice in the sequence
NoRepeats(seq) == \A a, b \in 1..Len(seq) : seq[a] = seq[b] => a = b

\* C17: an enumeration without whitelist, on any store, the stores with cycles
\* and with nodes no root is an ancestor of included, marks every node of the
\* store seen exactly once, yields no character twice, and yields no node of
\* zero strokes.
C17_VisitsEveryNodeOnce ==
    ~enum.args.given =>
        /\ NoRepeats(enum.visited)
        /\ NoRepeats(EnumOut(enum))
        /\ \A k \in 1..Len(enum.out) : radicals[enum.out[k].char].num_strokes # 0
        /\ enum.status = "done" => Range(enum.visited) = DOMAIN radicals

\* the same enumeration without whitelist, run to its end
WithoutWhitelist ==
    Enumerated([IdleEnum EXCEPT !.status = "created"], radicals, dictKeys, order)

\* C18: an enumeration given a whitelist, empty or not, yields members of the
\* whitelist only, and marks seen the nodes the enumeration without whitelist
\* marks seen: the descendants of a skipped character are explored.
C18_OnlyWhitelisted ==
    enum.args.given =>
        /\ \A k \in 1..Len(enum.out) : enum.out[k].char \in enum.args.set
        /\ enum.status = "done" => enum.visited = WithoutWhitelist.visited

Descendants(c) == radicals[c].descendants_left \cup radicals[c].descendants_right

\* the nodes reached from the nodes of S through the descendant sets
RECURSIVE ReachableFrom(_)
ReachableFrom(S) ==
    LET T == S \cup UNION {Descendants(c) : c \in S}
    IN  IF T = S THEN S ELSE ReachableFrom(T)

Roots == {c \in DOMAIN radicals : radicals[c].parent = NoParent}

SpecialRoots == {c \in Roots : radicals[c].num_strokes = 0}

FromNonSpecial == ReachableFrom(Roots \ SpecialRoots)

OnlyFromSpecial == ReachableFrom(SpecialRoots) \ FromNonSpecial

Strokes(c) == radicals[c].num_strokes

\* C19: the roots are explored in ascending number of strokes, those of zero
\* strokes last: of two yielded characters the earlier one was found from a
\* root that has strokes and no more of them than the root of the later one,
\* unless the later root has none; yielded roots come in non-decreasing number
\* of strokes; no node reached from special roots only is yielded before a
\* node reached from a root that is not special.
C19_RootsByStrokes ==
    \A a, b \in 1..Len(enum.out) :
        a < b =>
            LET x == enum.out[a]
                y == enum.out[b]
            IN  /\ Strokes(y.root) # 0 =>
                      Strokes(x.root) # 0 /\ Strokes(x.root) <= Strokes(y.root)
                /\ (x.char \in Roots /\ y.char \in Roots) =>
                      Strokes(x.char) <= Strokes(y.char)
                /\ ~(x.char \in OnlyFromSpecial /\ y.char \in FromNonSpecial)

\* an enumeration has ended that yielded two roots of different numbers of
\* strokes, a descendant of a root with strokes and a node that descends from
\* a special root only
C19_Witness ==
    /\ enum.status = "done"
    /\ \E a, b \in 1..Len(enum.out) :
          /\ enum.out[a].char \in Roots
          /\ enum.out[b].char \in Roots
          /\ Strokes(enum.out[a].char) < Strokes(enum.out[b].char)
    /\ \E a \in 1..Len(enum.out) : enum.out[a].char \in FromNonSpecial \ Roots
    /\ \E a \in 1..Len(enum.out) : enum.out[a].char \in OnlyFromSpecial

---------------------------------------------------------------------------
(* Properties of the store in use *)

\* C20: after any sequence of steps of searches and enumerations the store is
\* the one load_from_json returned: every node has the parent, the descendant
\* sets and the number of strokes of the end of the build, and no node was
\* added or removed.
C20_StoreUnchanged ==
    /\ radicals = load_from_json(rawFile)
    /\ dictKeys = LoadKeys(<<>>, rawFile, Ascending(rawFile))

\* a search that recursed and an enumeration have both yielded and ended
C20_Witness ==
    /\ enum.status = "done"
    /\ enum.out # <<>>
    /\ \E i \in Searches :
          /\ gens[i].status = "done"
          /\ gens[i].out # <<>>
          /\ gens[i].calls # <<>>

\* ---- two searches ----

\* searches 1 and 2 were given the same set object as exclusions
SharedSet == gens[1].args.exclusions # Null /\ gens[1].args.exclusions = gens[2].args.exclusions

\* what search i yields when nothing else runs: list(generator) of the same
\* call on the same initial contents of its set
Alone(i) ==
    LET a == gens[i].args
        g == NewGen(a.exclusions, a.char, a.max_distance,
                    [given |-> a.exclusions # Null, set |-> a.before],
                    a.do_stroke_difference, a.do_parent_alternates, a.do_parents)
    IN  Consumed([g EXCEPT !.callerv = a.before], radicals, order)

\* the (character, distance) pairs of the results of g, in order
Results(g) == [k \in 1..Len(g.out) |-> <<g.out[k].char, g.out[k].distance>>]

\* two searches on distinct sets: each has yielded a prefix of what it
\* yields alone, and all of it once exhausted
C21_Independent ==
    (\A i \in Pair : gens[i].status # "none") /\ ~SharedSet
    => \A i \in Pair :
          /\ Len(gens[i].out) <= Len(Alone(i).out)
          /\ Results(gens[i]) = SubSeq(Results(Alone(i)), 1, Len(gens[i].out))
          /\ gens[i].status \in {"done", "error"}
             => Results(gens[i]) = Results(Alone(i)) /\ gens[i].status = Alone(i).status

\* two searches on one shared set yield disjoint sets of characters
C21_SharedDisjoint ==
    (\A i \in Pair : gens[i].status # "none") /\ SharedSet
    => Yielded(gens[1]) \cap Yielded(gens[2]) = {}

\* C21: two searches on distinct exclusions sets, resumed in any order, each
\* yield the sequence they yield alone; two searches on one shared set never
\* yield the same character
C21_Interleaving == C21_Independent /\ C21_SharedDisjoint

\* two searches on distinct sets, both started, one exhausted while the other
\* is suspended between two results
C21_IndependentWitness ==
    /\ ~SharedSet
    /\ gens[1].status = "done" /\ Len(gens[1].out) >= 2
    /\ gens[2].status = "suspended" /\ Len(gens[2].out) >= 1
    /\ Yielded(gens[1]) \cap Yielded(gens[2]) # {}

\* ---- laziness ----

\* the characters search i has added to the set it uses as exclusions: the
\* caller's set object, or the private set made at line 146
Marked(i) ==
    (IF gens[i].ref = "caller" THEN callerSet[SetId(i)] ELSE gens[i].freshv)
    \ gens[i].args.before

\* the centres of the invocations a generator has started
Centres(g) ==
    (IF g.status = "created" THEN {} ELSE {g.args.char})
    \cup {g.calls[k].char : k \in 1..Len(g.calls)}

\* the parents of the character a search started from
StartParents(g) ==
    IF g.args.char \in DOMAIN radicals /\ radicals[g.args.char].parent # NoParent
    THEN {radicals[g.args.char].parent[2], radicals[g.args.char].parent[3]}
    ELSE {}

\* C22: at every point of the consumption of a search, every character the
\* search has added to its exclusions set is a character it has yielded or
\* the centre of an invocation it has started: the start, a parent of the
\* start under parent-sibling expansion, or a yielded character being expanded
C22_MarkedLazily ==
    \A i \in Searches :
        LET g == gens[i]
        IN  /\ Marked(i) \subseteq Yielded(g) \cup Centres(g)
            /\ \A k \in 1..Len(g.calls) :
                   \/ g.calls[k].kind = "parent" /\ g.args.do_parents
                      /\ g.calls[k].char \in StartParents(g)
                   \/ g.calls[k].kind = "queued" /\ g.calls[k].char \in Yielded(g)

\* a consumer stopped after a result while the search has more to yield, the
\* set holding a parent of the start besides the results so far
C22_Witness ==
    \E i \in Searches :
        LET g == gens[i]
        IN  /\ g.status = "suspended"
            /\ Len(Consumed(g, radicals, order).out) > Len(g.out)
            /\ Marked(i) \cap (StartParents(g) \ Yielded(g)) # {}
            /\ Marked(i) \cap Yielded(g) # {}

\* ---- the cost of a sibling ----

\* the characters other than c that share a component with c: the
\* descendants of the parents of c
Sharers(c) ==
    LET L == radicals[c].parent[2]
        R == radicals[c].parent[3]
    IN  (radicals[L].descendants_left \cup radicals[L].descendants_right
         \cup radicals[R].descendants_left \cup radicals[R].descendants_right) \ {c}

\* x is the only character that shares a component with c, and shares the
\* left component of c on the left side only
OnlyLeftSharer(c, x) ==
    LET L == radicals[c].parent[2]
        R == radicals[c].parent[3]
    IN  /\ Sharers(c) = {x}
        /\ x \in radicals[L].descendants_left
        /\ x \notin radicals[L].descendants_right \cup radicals[R].descendants_left
                      \cup radicals[R].descendants_right

\* an exhausted search from a character c with parents whose only sharer x is
\* a left sibling that the caller has not excluded; stroke counts play no part
SearchedOnlySharer(g, x) ==
    /\ g.status = "done"
    /\ g.args.char \in DOMAIN radicals
    /\ radicals[g.args.char].parent # NoParent
    /\ x \in DOMAIN radicals
    /\ OnlyLeftSharer(g.args.char, x)
    /\ x \notin g.args.before
    /\ \/ ~g.args.do_stroke_difference
       \/ radicals[x].num_strokes = radicals[g.args.char].num_strokes

\* COST_RADICAL, plus COST_COMPOSITION when the types of c and x differ
SiblingCost(c, x) ==
    COST_DIFFERENT_RADICAL
    + (IF radicals[x].parent[1] # radicals[c].parent[1]
       THEN COST_DIFFERENT_COMPOSITION ELSE 0)

\* C23: when the only character sharing a component with the start shares its
\* left component on the left side, it is the first result, at distance
\* COST_RADICAL when its composition type is that of the start and
\* COST_RADICAL + COST_COMPOSITION when it is not (no result when that exceeds
\* max_distance); on the table of 好 and 如 a search from 好 with max_distance
\* 1.0 yields exactly (如, 1.0)
C23_SiblingCost ==
    \A i \in Searches :
        LET g == gens[i]
        IN  /\ \A x \in Chars :
                  SearchedOnlySharer(g, x)
                  => LET d == SiblingCost(g.args.char, x)
                     IN  IF d <= g.args.max_distance
                         THEN /\ g.out # <<>>
                              /\ Results(g)[1] = <<x, d>>
                              /\ \A k \in 2..Len(g.out) : g.out[k].char # x
                         ELSE x \notin Yielded(g)
            /\ (/\ rawFile = TableHaoRu("LR")
                /\ g.status = "done"
                /\ g.args.char = 4
                /\ g.args.max_distance = COST_DIFFERENT_RADICAL
                /\ 5 \notin g.args.before)
               => Results(g) = << <<5, COST_DIFFERENT_RADICAL>> >>

\* the sibling of another composition type was yielded at COST_RADICAL +
\* COST_COMPOSITION
C23_Witness ==
    \E i \in Searches, x \in Chars :
        /\ SearchedOnlySharer(gens[i], x)
        /\ radicals[x].parent[1] # radicals[gens[i].args.char].parent[1]
        /\ gens[i].out # <<>>
        /\ Results(gens[i])[1] = <<x, COST_DIFFERENT_RADICAL + COST_DIFFERENT_COMPOSITION>>

\* the search from 好 on the table of 好 and 如 yielded (如, 1.0)
C23_HaoRu ==
    \E i \in Searches :
        /\ rawFile = TableHaoRu("LR")
        /\ gens[i].status = "done"
        /\ gens[i].args.char = 4
        /\ gens[i].args.max_distance = COST_DIFFERENT_RADICAL
        /\ Results(gens[i]) = << <<5, COST_DIFFERENT_RADICAL>> >>

\* ---- parent-sibling expansion ----

\* the set search i uses as exclusions
ExclusionsOf(i) == IF gens[i].ref = "caller" THEN callerSet[SetId(i)] ELSE gens[i].freshv

\* the characters that share a component with p
SharersOf(p) ==
    IF p \in DOMAIN radicals /\ radicals[p].parent # NoParent THEN Sharers(p) ELSE {}

StoredDistance(g, q) ==
    LET k == CHOOSE j \in 1..Len(g.out) : g.out[j].char = q
    IN  g.out[k].distance

\* the cost of the result s of a loop relative to the centre q of the
\* invocation that yielded it
RelativeCost(g, q, s, phase) ==
    (IF phase \in AlternateLoops THEN COST_DIFFERENT_SIDE ELSE 0)
    + (IF radicals[s].parent[1] # radicals[q].parent[1]
       THEN COST_DIFFERENT_COMPOSITION ELSE 0)
    + (IF g.args.do_stroke_difference
       THEN COST_DIFFERENT_STROKES * Abs(radicals[s].num_strokes - radicals[q].num_strokes)
       ELSE 0)

\* C27: the expansion of a queued result q, stored with distance d, starts
\* from d + COST_RADICAL, and yields a sibling s of q at d + COST_RADICAL
\* plus COST_COMPOSITION when the type of s differs from that of q, plus the
\* stroke cost between s and q when enabled (an alternate costs COST_SIDE
\* more): the costs are relative to q, not to the start
C27_CostsRelativeToCentre ==
    \A i \in Searches :
        LET g == gens[i]
        IN  /\ \A c \in 1..Len(g.calls) :
                  g.calls[c].kind = "queued"
                  => /\ g.calls[c].char \in Yielded(g)
                     /\ g.calls[c].distance =
                           StoredDistance(g, g.calls[c].char) + COST_DIFFERENT_RADICAL
            /\ \A k \in 1..Len(g.out) :
                  g.out[k].kind = "queued"
                  => /\ g.out[k].centre \in Yielded(g)
                     /\ g.out[k].distance =
                           StoredDistance(g, g.out[k].centre) + COST_DIFFERENT_RADICAL
                           + RelativeCost(g, g.out[k].centre, g.out[k].char, g.out[k].phase)

\* a sibling s of a queued result q was yielded with the composition cost
\* counted twice: the type of q differs from that of the start and the type
\* of s from that of q
C27_Witness ==
    \E i \in Searches :
        LET g == gens[i]
        IN  \E k \in 1..Len(g.out) :
               /\ g.out[k].kind = "queued"
               /\ g.out[k].phase \in SiblingLoops
               /\ radicals[g.out[k].centre].parent[1] # radicals[g.args.char].parent[1]
               /\ radicals[g.out[k].char].parent[1] # radicals[g.out[k].centre].parent[1]
               /\ g.out[k].distance >= 2 * COST_DIFFERENT_RADICAL + 2 * COST_DIFFERENT_COMPOSITION

\* ---- the queues of explore_lr_bfs ----

\* the queue that a pop p leaves behind before do_queued extends it
RestLeft(p) == IF p.queue = "lq" THEN Tail(p.lq_before) ELSE p.lq_before

RestRight(p) == IF p.queue = "rq" THEN Tail(p.rq_before) ELSE p.rq_before

\* seq is rest followed by the elements of S in ascending number of strokes,
\* those of zero strokes last
ExtendedBy(seq, rest, S) ==
    /\ Len(seq) = Len(rest) + Cardinality(S)
    /\ SubSeq(seq, 1, Len(rest)) = rest
    /\ {seq[k] : k \in (Len(rest) + 1)..Len(seq)} = S
    /\ \A a, b \in (Len(rest) + 1)..Len(seq) :
          a < b => \/ Strokes(seq[b]) = 0
                   \/ Strokes(seq[a]) # 0 /\ Strokes(seq[a]) <= Strokes(seq[b])

\* C28 as stated: no node is taken from the right-queue while the left-queue
\* holds a node
C28_RightOnlyWhenLeftEmpty ==
    \A k \in 1..Len(enum.pops) :
        enum.pops[k].queue = "rq" => enum.pops[k].lq_before = <<>>

\* a drain ends only when its queue is empty, and the left-queue is drained
\* first
DrainsWhole ==
    \A k \in 1..Len(enum.pops) :
        LET p == enum.pops[k]
            first_of_root == k = 1 \/ enum.pops[k - 1].root # p.root
        IN  /\ first_of_root
               => p.queue = "lq" /\ p.char = p.root
                  /\ p.lq_before = <<p.root>> /\ p.rq_before = <<p.root>>
            /\ ~first_of_root
               => LET q == enum.pops[k - 1]
                  IN  /\ p.lq_before = q.lq_after /\ p.rq_before = q.rq_after
                      /\ q.queue = "lq" => (p.queue = "lq" <=> q.lq_after # <<>>)
                      /\ q.queue = "rq" => (p.queue = "rq" <=> q.rq_after # <<>>)
            /\ (IF k < Len(enum.pops) THEN enum.pops[k + 1].root # p.root
                                       ELSE enum.status = "done")
               => p.lq_after = <<>> /\ p.rq_after = <<>>

\* C28: in the traversal of one root the left-queue is drained whole, the
\* entries added during the drain included, then the right-queue is drained
\* whole, the left-queue holding nodes or not, and the rounds repeat until
\* both are empty; a node is marked seen when dequeued, and only its first
\* dequeue enqueues its descendants, the left ones on the left-queue and the
\* right ones on the right-queue, each in ascending number of strokes with
\* zero last
C28_QueueDiscipline ==
    /\ DrainsWhole
    /\ \A k \in 1..Len(enum.pops) :
          LET p == enum.pops[k]
          IN  /\ p.char = (IF p.queue = "lq" THEN Head(p.lq_before) ELSE Head(p.rq_before))
              /\ p.char \in enum.seen
              /\ p.first <=> (\A j \in 1..(k - 1) : enum.pops[j].char # p.char)
              /\ p.first
                 => /\ ExtendedBy(p.lq_after, RestLeft(p), radicals[p.char].descendants_left)
                    /\ ExtendedBy(p.rq_after, RestRight(p), radicals[p.char].descendants_right)
              /\ ~p.first
                 => p.lq_after = RestLeft(p) /\ p.rq_after = RestRight(p)

\* a node was taken from the right-queue while the left-queue held a node
\* that a pop of the same drain had put there, and the enumeration ended
C28_Witness ==
    /\ enum.status = "done"
    /\ \E k \in 2..Len(enum.pops) :
          /\ enum.pops[k].queue = "rq"
          /\ enum.pops[k - 1].queue = "rq"
          /\ enum.pops[k - 1].first
          /\ enum.pops[k - 1].lq_before = <<>>
          /\ enum.pops[k].lq_before # <<>>
          /\ enum.pops[k].first
          /\ Cardinality(radicals[enum.pops[k].char].descendants_left
                          \cup radicals[enum.pops[k].char].descendants_right) >= 1

\* ---- termination of enumerate_sorted ----

\* the number of queue entries made by the expansions of the nodes of seq
RECURSIVE Enqueued(_)
Enqueued(seq) ==
    IF seq = <<>> THEN 0
    ELSE Cardinality(radicals[Head(seq)].descendants_left)
         + Cardinality(radicals[Head(seq)].descendants_right)
         + Enqueued(Tail(seq))

\* the roots whose traversal has begun
StartedRoots == {enum.pops[k].root : k \in 1..Len(enum.pops)}

\* C30: enumerate_sorted terminates on every store, with cycles or without:
\* every next() returns; no node is expanded twice, so the queue entries ever
\* made are two for each root begun and one for each descendant of each
\* expanded node, each of them dequeued or still queued; and the generator
\* ends with both queues empty after every root was begun
C30_EnumerationTerminates ==
    /\ enum.status \in {"created", "suspended"}
       => RunEnum([enum EXCEPT !.status = "run"], radicals, dictKeys, order).status
          \in {"yield", "done"}
    /\ NoRepeats(enum.visited)
    /\ Range(enum.visited) \subseteq DOMAIN radicals
    /\ Len(enum.pops) + Len(enum.lq) + Len(enum.rq)
       = 2 * Cardinality(StartedRoots) + Enqueued(enum.visited)
    /\ enum.status = "done"
       => /\ enum.lq = <<>> /\ enum.rq = <<>> /\ enum.roots = <<>>
          /\ StartedRoots = Roots

\* an enumeration ended on a store where an expanded node is its own
\* descendant and was dequeued again after its expansion
C30_Witness ==
    /\ enum.status = "done"
    /\ \E k \in 1..Len(enum.pops) :
          /\ ~enum.pops[k].first
          /\ enum.pops[k].char \in ReachableFrom(Descendants(enum.pops[k].char))

\* ---- the order of the entries ----

\* the place of c in the keys of the dict
KeyIndex(c) == CHOOSE k \in 1..Len(dictKeys) : dictKeys[k] = c

\* C29: the store a build returns does not depend on the order in which the
\* entries of the raw table were processed: whatever the order, its nodes,
\* parents, descendant sets and stroke counts are those of the build that
\* takes the entries in ascending order
C29_OrderIndependent ==
    loadState = "loaded" =>
        /\ DOMAIN radicals = DOMAIN load_from_json(rawFile)
        /\ \A c \in DOMAIN radicals :
              /\ radicals[c].parent = load_from_json(rawFile)[c].parent
              /\ radicals[c].descendants_left = load_from_json(rawFile)[c].descendants_left
              /\ radicals[c].descendants_right = load_from_json(rawFile)[c].descendants_right
              /\ radicals[c].num_strokes = load_from_json(rawFile)[c].num_strokes

\* a build has returned in which the entry of a character x with no
\* descendants was processed before the entry of its component l, which has
\* components itself: the placeholder of l held x when the entry of l set its
\* strokes and parent
C29_Witness ==
    /\ loadState = "loaded"
    /\ \E x, l \in DOMAIN rawFile :
          /\ x # l
          /\ radicals[x].parent # NoParent
          /\ l \in {radicals[x].parent[2], radicals[x].parent[3]}
          /\ Descendants(x) = {}
          /\ KeyIndex(x) < KeyIndex(l)
          /\ radicals[l].parent # NoParent
          /\ radicals[l].num_strokes = rawFile[l][1]
          /\ radicals[l].num_strokes # 0
          /\ x \in Descendants(l)

\* ---- the Database ----

\* the highest times_occurred of the characters of the database
HighestOccurred ==
    CHOOSE m \in {db.chars[c][1] : c \in DOMAIN db.chars} :
        \A c \in DOMAIN db.chars : db.chars[c][1] <= m

\* C24: whenever the database holds a character, max_occurrences is the
\* highest times_occurred of its characters, so 1 or more, and generate does
\* not raise the exception that says the database holds no characters
C24_MaxOccurrences ==
    DOMAIN db.chars # {}
    => /\ db.max_occurrences = HighestOccurred
       /\ db.max_occurrences >= 1
       /\ ~(io.op = "generate" /\ io.ret = "Exception")

\* the characters of a file that are hanzi
HanziOf(data) ==
    LET t == decode(data)
    IN  {t.text[k] : k \in {j \in 1..Len(t.text) : is_hanzi(t.text[j])}}

\* an add_text of a file whose hash is in input_hashes leaves the counts as
\* they were, whatever is answered at the prompt
KnownFileCountsKept ==
    io.op = "add_text" /\ io.known => db.chars = io.chars_before

\* C25: every value of input_hashes is a list of the label of the file and
\* the list of the characters the file introduced, and an add_text of a file
\* whose hash is in input_hashes leaves the counts of all characters as
\* they were
C25_InputHashes ==
    /\ \A h \in DOMAIN db.input_hashes :
          /\ Len(db.input_hashes[h]) = 2
          /\ db.input_hashes[h][1] \in Labels
          /\ Range(db.input_hashes[h][2]) \subseteq HanziOf(h.digest_of)
          /\ NoRepeats(db.input_hashes[h][2])
    /\ KnownFileCountsKept
====
